---------------------------- MODULE Spec2Model ----------------------------
(***************************************************************************)
(* A model of xlsxpandas: the Drawer (a cursor over the row/column grid    *)
(* with a bounded history of drawn extents and named checkpoints) and the  *)
(* drawable objects it is fed (Element, Series, Dictionary).               *)
(*                                                                         *)
(* Python values are tagged records of one shape, so that any two of them  *)
(* can be compared: t is the type, s the text of a str, n the number of an *)
(* int, l the members of a list or tuple.  A Python str is a sequence of   *)
(* one-character strings.                                                  *)
(***************************************************************************)
EXTENDS Integers, Sequences, FiniteSets, TLC

VARIABLES
    x,            \* Drawer._x (rows)
    y,            \* Drawer._y (columns)
    widths,       \* Drawer._widths, a deque with maxlen = MemLen
    heights,      \* Drawer._heights, a deque with maxlen = MemLen
    checkpoints,  \* Drawer.checkpoints: name -> <<x, y>>
    drawn,        \* history variable: <<width, height>> of every object drawn so far
    obj,          \* the object last handed to a draw, as the draw left it
    out,          \* the backend (worksheet) calls the last call made, in order
    last          \* the last call: its name, its arguments, how it ended, what it returned

vars == <<x, y, widths, heights, checkpoints, drawn, obj, out, last>>

drawerVars == <<x, y, widths, heights, checkpoints>>

(***************************************************************************)
(* Bounds of the model.                                                    *)
(***************************************************************************)
MemLen == 2        \* the Drawer's history capacity (memlen)
MaxPos == 2        \* the Drawer's x and y stay within -NegPos..MaxPos
NegPos == 1
MaxExtent == 2     \* largest height/width of an Element

(***************************************************************************)
(* Python values.                                                          *)
(***************************************************************************)
PyNone == [t |-> "none", s |-> <<>>, n |-> 0, l |-> <<>>]
PyStr(str) == [t |-> "str", s |-> str, n |-> 0, l |-> <<>>]
PyInt(i) == [t |-> "int", s |-> <<>>, n |-> i, l |-> <<>>]
PyList(members) == [t |-> "list", s |-> <<>>, n |-> 0, l |-> members]
PyTuple(members) == [t |-> "tuple", s |-> <<>>, n |-> 0, l |-> members]
\* an object that is neither of the above (a module, a class, a function), by name
PyObject(name) == [t |-> "object", s |-> name, n |-> 0, l |-> <<>>]
\* a mapping given as a member of a list value (Dictionary): its 'value', and its
\* 'height' (0 when the mapping has no 'height' key)
PyDict(value, height) == [t |-> "dict", s |-> <<>>, n |-> height, l |-> << value >>]

\* An optional argument: None, or a value.
NoArg == [some |-> FALSE, v |-> 0]
Some(v) == [some |-> TRUE, v |-> v]
NoName == [some |-> FALSE, v |-> ""]

\* a style: a mapping from format keys to values; {} is the empty one
NoStyle == [k \in {} |-> 0]

\* {**a, **b}
MergeStyles(a, b) ==
    [k \in DOMAIN a \cup DOMAIN b |-> IF k \in DOMAIN b THEN b[k] ELSE a[k]]

\* style[key] = v, in place
SetStyleKey(style, key, v) ==
    [k \in DOMAIN style \cup {key} |-> IF k = key THEN v ELSE style[k]]

\* {key: v}
OneKey(key, v) == [k \in {key} |-> v]

Letters == << "A", "B", "C", "D", "E", "F", "G", "H", "I", "J", "K", "L", "M",
              "N", "O", "P", "Q", "R", "S", "T", "U", "V", "W", "X", "Y", "Z" >>
Digits == << "0", "1", "2", "3", "4", "5", "6", "7", "8", "9" >>

IsLetter(c) == \E i \in 1..26 : Letters[i] = c
IsDigit(c) == \E i \in 1..10 : Digits[i] = c
LetterOrd(c) == CHOOSE i \in 1..26 : Letters[i] = c
DigitVal(c) == (CHOOSE i \in 1..10 : Digits[i] = c) - 1

\* str(n) of an int
RECURSIVE StrNat(_)
StrNat(n) == IF n < 10 THEN << Digits[n + 1] >>
             ELSE StrNat(n \div 10) \o << Digits[(n % 10) + 1] >>
StrInt(n) == IF n < 0 THEN << "-" >> \o StrNat(-n) ELSE StrNat(n)

\* int(s) of a string of digits
RECURSIVE IntOfDigits(_)
IntOfDigits(s) == IF s = <<>> THEN 0
                  ELSE 10 * IntOfDigits(SubSeq(s, 1, Len(s) - 1)) + DigitVal(s[Len(s)])

(***************************************************************************)
(* The backend's address notation (xlsxwriter.utility), for rows and       *)
(* columns >= 0.                                                           *)
(***************************************************************************)
RECURSIVE ColName(_)
\* the loop of xl_col_to_name over col_num = col + 1
ColName(col_num) ==
    IF col_num = 0 THEN <<>>
    ELSE LET r == col_num % 26
             remainder == IF r = 0 THEN 26 ELSE r
         IN  ColName((col_num - 1) \div 26) \o << Letters[remainder] >>

xl_col_to_name(col) == ColName(col + 1)

xl_rowcol_to_cell(row, col) == xl_col_to_name(col) \o StrInt(row + 1)

RECURSIVE ColNumber(_)
\* the base-26 value of a column name
ColNumber(s) == IF s = <<>> THEN 0
                ELSE 26 * ColNumber(SubSeq(s, 1, Len(s) - 1)) + LetterOrd(s[Len(s)])

\* the length of the longest prefix of s made of characters satisfying the test
RECURSIVE LettersPrefix(_)
LettersPrefix(s) == IF s # <<>> /\ IsLetter(Head(s)) THEN 1 + LettersPrefix(Tail(s)) ELSE 0
RECURSIVE DigitsPrefix(_)
DigitsPrefix(s) == IF s # <<>> /\ IsDigit(Head(s)) THEN 1 + DigitsPrefix(Tail(s)) ELSE 0

\* xl_cell_to_rowcol: re.match of (\$?)([A-Z]{1,3})(\$?)(\d+), then the conversion.
\* ok is FALSE where the pattern does not match (the library then fails on match.group).
xl_cell_to_rowcol(cell) ==
    IF cell = <<>> THEN [ok |-> TRUE, row |-> 0, col |-> 0]
    ELSE
    LET s1 == IF Head(cell) = "$" THEN Tail(cell) ELSE cell
        nl == LettersPrefix(s1)
        k  == IF nl > 3 THEN 3 ELSE nl
        col_str == SubSeq(s1, 1, k)
        s2 == SubSeq(s1, k + 1, Len(s1))
        s3 == IF s2 # <<>> /\ Head(s2) = "$" THEN Tail(s2) ELSE s2
        nd == DigitsPrefix(s3)
        row_str == SubSeq(s3, 1, nd)
    IN  IF k = 0 \/ nd = 0 THEN [ok |-> FALSE, row |-> 0, col |-> 0]
        ELSE [ok |-> TRUE, row |-> IntOfDigits(row_str) - 1, col |-> ColNumber(col_str) - 1]

\* the position of the first ":" of a range string (0 if there is none)
RECURSIVE ColonAt(_)
ColonAt(s) == IF s = <<>> THEN 0
              ELSE IF Head(s) = ":" THEN 1
              ELSE LET r == ColonAt(Tail(s)) IN IF r = 0 THEN 0 ELSE r + 1


(***************************************************************************)
(* str(value) and repr(value) of a Python value.                           *)
(***************************************************************************)
RECURSIVE PyRepr(_)
RECURSIVE JoinRepr(_)
\* ", ".join(repr(m) for m in members)
JoinRepr(members) ==
    IF members = <<>> THEN <<>>
    ELSE IF Len(members) = 1 THEN PyRepr(members[1])
    ELSE PyRepr(Head(members)) \o << ",", " " >> \o JoinRepr(Tail(members))

PyRepr(v) ==
    CASE v.t = "str" -> << "'" >> \o v.s \o << "'" >>
      [] v.t = "int" -> StrInt(v.n)
      [] v.t = "none" -> << "N", "o", "n", "e" >>
      [] v.t = "list" -> << "[" >> \o JoinRepr(v.l) \o << "]" >>
      [] v.t = "tuple" -> << "(" >> \o JoinRepr(v.l)
                          \o (IF Len(v.l) = 1 THEN << "," >> ELSE <<>>) \o << ")" >>
      [] OTHER -> << "<" >> \o v.s \o << ">" >>

PyStrOf(v) == IF v.t = "str" THEN v.s ELSE PyRepr(v)

(***************************************************************************)
(* A backend call, as the worksheet receives it.  Unused fields are 0 or   *)
(* empty.  num/den is the width or height passed to set_column/set_row.    *)
(***************************************************************************)
Call(m, row, col, col2, addr, val, num, den) ==
    [m |-> m, row |-> row, col |-> col, col2 |-> col2, addr |-> addr,
     val |-> val, num |-> num, den |-> den]

WriteCall(m, row, col, val) == Call(m, row, col, 0, <<>>, val, 0, 1)
MergeCall(rng) == Call("merge_range", 0, 0, 0, rng, PyNone, 0, 1)
RichCall(addr, val) == Call("write_rich_string", 0, 0, 0, addr, val, 0, 1)
CommentCall(addr, text) == Call("write_comment", 0, 0, 0, addr, text, 0, 1)
SetColumnCall(first, lastcol, num, den) == Call("set_column", 0, first, lastcol, <<>>, PyNone, num, den)
SetRowCall(row, num, den) == Call("set_row", row, 0, 0, <<>>, PyNone, num, den)

\* What a draw method did: the calls it made, in order, and how it ended.
Did(calls, err) == [calls |-> calls, err |-> err]

\* r, and r2 after it unless r raised
Then(r, r2) ==
    IF r.err # "ok" THEN r ELSE Did(r.calls \o r2.calls, r2.err)

(***************************************************************************)
(* Element                                                                 *)
(***************************************************************************)
\* col_width: None, 'auto', a float, or another string
CwNone == [k |-> "none", v |-> 0]
CwAuto == [k |-> "auto", v |-> 0]
CwFloat(f) == [k |-> "float", v |-> f]
CwStr == [k |-> "str", v |-> 0]

Element(value, height, width, comment, write_method, col_width, padding) ==
    [cls |-> "Element", value |-> value, height |-> height, width |-> width,
     comment |-> comment, write_method |-> write_method,
     col_width |-> col_width, padding |-> padding]

\* Element(value, height, width) with the defaults of the other parameters
PlainElement(value, height, width) ==
    Element(value, height, width, PyNone, "write", CwNone, 2)

Element_xl_upleft(e, px, py) == xl_rowcol_to_cell(px, py)

\* a variant of Element_xl_loright: the cell after the last one, in both directions
Element_xl_loright_Outside(e, px, py) == xl_rowcol_to_cell(px + e.height, py + e.width)

Element_xl_loright(e, px, py) == xl_rowcol_to_cell(px + e.height - 1, py + e.width - 1)

Element_xl_range(e, px, py) ==
    Element_xl_upleft(e, px, py) \o << ":" >> \o Element_xl_loright(e, px, py)

\* a variant of Element_col_width_calls: the TypeError of None + padding is not caught
Element_col_width_calls_Uncaught(e, py) ==
    CASE e.col_width.k = "float" ->
            Did(<< SetColumnCall(py, py + e.width - 1, e.col_width.v, e.width) >>, "ok")
      [] e.col_width.k = "auto" ->
            IF e.value.t = "none" THEN Did(<<>>, "TypeError")
            ELSE Did(<< SetColumnCall(py, py + e.width - 1,
                                      Len(PyStrOf(e.value)) + e.padding * 2,
                                      e.width * e.width) >>, "ok")
      [] e.col_width.k = "none" -> Did(<<>>, "ok")
      [] OTHER -> Did(<<>>, "ValueError")

\* the column width adjustment that ends Element.draw
Element_col_width_calls(e, py) ==
    CASE e.col_width.k = "float" ->
            Did(<< SetColumnCall(py, py + e.width - 1, e.col_width.v, e.width) >>, "ok")
      [] e.col_width.k = "auto" ->
            IF e.value.t = "none" THEN Did(<<>>, "ok")
            ELSE Did(<< SetColumnCall(py, py + e.width - 1,
                                      Len(PyStrOf(e.value)) + e.padding * 2,
                                      e.width * e.width) >>, "ok")
      [] e.col_width.k = "none" -> Did(<<>>, "ok")
      [] OTHER -> Did(<<>>, "ValueError")

\* Element.draw up to the column width adjustment: the merge, the write, the comment
Element_write_calls(e, px, py) ==
    LET rich == e.write_method = "write_rich_string" /\ e.value.t = "tuple"
    IN  (IF e.height > 1 \/ e.width > 1
         THEN << MergeCall(Element_xl_range(e, px, py)) >> ELSE <<>>)
        \o (IF rich
            THEN << RichCall(Element_xl_upleft(e, px, py), e.value) >>
            ELSE << WriteCall(e.write_method, px, py, e.value) >>)
        \o (IF ~rich /\ e.comment.t # "none"
            THEN << CommentCall(Element_xl_upleft(e, px, py), e.comment) >>
            ELSE <<>>)

Element_draw(e, px, py) ==
    Then(Did(Element_write_calls(e, px, py), "ok"), Element_col_width_calls(e, py))

(***************************************************************************)
(* Series                                                                  *)
(***************************************************************************)
\* a Series without a name
NoElement == [some |-> FALSE, v |-> PyNone]

Series(values, horizontal, name, col_width, padding) ==
    [cls |-> "Series", values |-> values, horizontal |-> horizontal, name |-> name,
     col_width |-> col_width, padding |-> padding]

Max(a, b) == IF a > b THEN a ELSE b

RECURSIVE SumWidths(_)
SumWidths(elems) == IF elems = <<>> THEN 0 ELSE Head(elems).width + SumWidths(Tail(elems))
RECURSIVE SumHeights(_)
SumHeights(elems) == IF elems = <<>> THEN 0 ELSE Head(elems).height + SumHeights(Tail(elems))
RECURSIVE MaxWidth(_)
MaxWidth(elems) ==
    IF Len(elems) = 1 THEN elems[1].width
    ELSE Max(Head(elems).width, MaxWidth(Tail(elems)))
RECURSIVE MaxHeight(_)
MaxHeight(elems) ==
    IF Len(elems) = 1 THEN elems[1].height
    ELSE Max(Head(elems).height, MaxHeight(Tail(elems)))

Series_length(sr) == IF sr.horizontal THEN SumWidths(sr.values) ELSE SumHeights(sr.values)
Series_width(sr) == IF sr.horizontal THEN Series_length(sr) ELSE MaxWidth(sr.values)
Series_height(sr) == IF sr.horizontal THEN MaxHeight(sr.values) ELSE Series_length(sr)

\* a variant of DrawMembers: the position advances by one cell, whatever the member's
\* size
RECURSIVE DrawMembers_ByOne(_, _, _, _)
DrawMembers_ByOne(elems, px, py, horizontal) ==
    IF elems = <<>> THEN Did(<<>>, "ok")
    ELSE Then(Element_draw(Head(elems), px, py),
              DrawMembers_ByOne(Tail(elems),
                                IF horizontal THEN px ELSE px + 1,
                                IF horizontal THEN py + 1 ELSE py,
                                horizontal))

\* the loop "for elem in self.values: elem.draw(x, y, ...); advance": it ends at the
\* first member whose draw raises
RECURSIVE DrawMembers(_, _, _, _)
DrawMembers(elems, px, py, horizontal) ==
    IF elems = <<>> THEN Did(<<>>, "ok")
    ELSE Then(Element_draw(Head(elems), px, py),
              DrawMembers(Tail(elems),
                          IF horizontal THEN px ELSE px + Head(elems).height,
                          IF horizontal THEN py + Head(elems).width ELSE py,
                          horizontal))

\* max of two lengths, -1 standing for the TypeError of a None among them
MaxLen(v, m) == IF v = -1 \/ m = -1 THEN -1 ELSE Max(v, m)

\* vlen(value)
Vlen(value) == IF value.t = "none" THEN -1 ELSE Len(PyStrOf(value))

\* max([vlen(elem.value) for elem in self])
RECURSIVE MaxVlen(_)
MaxVlen(elems) ==
    IF elems = <<>> THEN -1
    ELSE IF Len(elems) = 1 THEN Vlen(elems[1].value)
    ELSE MaxLen(Vlen(Head(elems).value), MaxVlen(Tail(elems)))

\* "if self.col_width": None and 0.0 are false, a string that is not empty is true
Truthy(col_width) ==
    col_width.k \in {"auto", "str"} \/ (col_width.k = "float" /\ col_width.v # 0)

\* the 'auto' branch of the adjustment, vlen being the longest value's length
SeriesAutoWidth(py, w, vlen, padding) ==
    IF vlen = -1 THEN Did(<<>>, "ok")
    ELSE Did(<< SetColumnCall(py, py + w - 1, vlen + padding * 2, w * w) >>, "ok")

\* the column width / row height adjustment that ends Series.draw, w and h being the
\* width and the height of the series
SeriesAdjust(sr, px, py, w, h) ==
    IF Truthy(sr.col_width) /\ ~sr.horizontal THEN
        CASE sr.col_width.k = "float" ->
                Did(<< SetColumnCall(py, py + w - 1, sr.col_width.v, w) >>, "ok")
          [] sr.col_width.k = "auto" ->
                SeriesAutoWidth(py, w, MaxVlen(sr.values), sr.padding)
          [] OTHER -> Did(<<>>, "ValueError")
    ELSE IF Truthy(sr.col_width) /\ sr.col_width.k = "float" /\ sr.horizontal THEN
        Did([i \in 1..h |-> SetRowCall(px + i - 1, sr.col_width.v, h)], "ok")
    ELSE Did(<<>>, "ok")

Series_col_width_calls(sr, px, py) ==
    SeriesAdjust(sr, px, py, Series_width(sr), Series_height(sr))

\* Series.draw with the name element drawn first
Series_draw_named(sr, px, py) ==
    Then(Element_draw(sr.name.v, px, py),
         Then(DrawMembers(sr.values,
                          IF sr.horizontal THEN px ELSE px + sr.name.v.height,
                          IF sr.horizontal THEN py + sr.name.v.width ELSE py,
                          sr.horizontal),
              Series_col_width_calls(sr, px, py)))

\* Series.draw without it.  The adjustment reads x when horizontal and y when not:
\* the coordinate the loop has not advanced
Series_draw_plain(sr, px, py) ==
    Then(DrawMembers(sr.values, px, py, sr.horizontal), Series_col_width_calls(sr, px, py))

Series_draw(sr, px, py, draw_name) ==
    IF draw_name /\ sr.name.some THEN Series_draw_named(sr, px, py)
    ELSE Series_draw_plain(sr, px, py)

(***************************************************************************)
(* eval(expression, None, context), for expressions of the form            *)
(* operand + operand + ... without blanks, an operand being an integer     *)
(* literal or a name.  A name is looked up in context (the locals), then   *)
(* in the globals of the elements module (globals=None gives the caller's) *)
(* and then in the builtins.                                               *)
(***************************************************************************)
EvalMarker == << "@", "e", "v", "a", "l", "@" >>

LowerLetters == { "a", "b", "c", "d", "e", "f", "g", "h", "i", "j", "k", "l", "m",
                  "n", "o", "p", "q", "r", "s", "t", "u", "v", "w", "x", "y", "z" }
IsIdentStart(c) == c \in LowerLetters \/ IsLetter(c) \/ c = "_"
IsIdentChar(c) == IsIdentStart(c) \/ IsDigit(c)

\* the names bound at module level in elements.py (its imports and its classes)
ModuleGlobals == { << "s", "y", "s" >>, << "y", "a", "m", "l" >>, << "r", "e" >>,
                   << "p", "d" >>,
                   << "O", "r", "d", "e", "r", "e", "d", "D", "i", "c", "t" >>,
                   << "x", "l", "_", "r", "o", "w", "c", "o", "l", "_", "t", "o", "_",
                      "c", "e", "l", "l" >>,
                   << "v", "a", "l", "i", "d", "a", "t", "e", "_", "p", "a", "r", "a", "m" >>,
                   << "E", "l", "e", "m", "e", "n", "t" >>,
                   << "S", "e", "r", "i", "e", "s" >>,
                   << "D", "a", "t", "a", "F", "r", "a", "m", "e" >>,
                   << "D", "i", "c", "t", "i", "o", "n", "a", "r", "y" >>,
                   << "_", "_", "n", "a", "m", "e", "_", "_" >> }
\* __name__, which every module binds, and its value in elements.py
DunderName == << "_", "_", "n", "a", "m", "e", "_", "_" >>
ModuleName == << "x", "l", "s", "x", "p", "a", "n", "d", "a", "s", ".",
                 "e", "l", "e", "m", "e", "n", "t", "s" >>
\* some of the builtins
Builtins == { << "l", "e", "n" >>, << "s", "t", "r" >>, << "i", "n", "t" >>,
              << "m", "a", "x" >> }

\* the operands of an expression: the text between its "+" signs
RECURSIVE SplitPlus(_)
SplitPlus(s) ==
    IF s = <<>> THEN << <<>> >>
    ELSE LET rest == SplitPlus(Tail(s))
         IN  IF Head(s) = "+" THEN << <<>> >> \o rest
             ELSE << << Head(s) >> \o Head(rest) >> \o Tail(rest)

IsIntLiteral(tok) ==
    /\ tok # <<>>
    /\ \A i \in 1..Len(tok) : IsDigit(tok[i])
    /\ (Len(tok) > 1 /\ tok[1] = "0") => \A i \in 1..Len(tok) : tok[i] = "0"
IsName(tok) ==
    /\ tok # <<>>
    /\ IsIdentStart(tok[1])
    /\ \A i \in 1..Len(tok) : IsIdentChar(tok[i])

\* a variant of Lookup: only the context binds names
Lookup_ContextOnly(tok, context) ==
    IF IsIntLiteral(tok) THEN [ok |-> TRUE, v |-> PyInt(IntOfDigits(tok))]
    ELSE IF tok = << "N", "o", "n", "e" >> THEN [ok |-> TRUE, v |-> PyNone]
    ELSE IF tok \in DOMAIN context THEN [ok |-> TRUE, v |-> context[tok]]
    ELSE [ok |-> FALSE, v |-> PyNone]

\* an operand's value; ok is FALSE for a name that is bound nowhere
Lookup(tok, context) ==
    IF IsIntLiteral(tok) THEN [ok |-> TRUE, v |-> PyInt(IntOfDigits(tok))]
    ELSE IF tok = << "N", "o", "n", "e" >> THEN [ok |-> TRUE, v |-> PyNone]
    ELSE IF tok \in DOMAIN context THEN [ok |-> TRUE, v |-> context[tok]]
    ELSE IF tok = DunderName THEN [ok |-> TRUE, v |-> PyStr(ModuleName)]
    ELSE IF tok \in ModuleGlobals \cup Builtins THEN [ok |-> TRUE, v |-> PyObject(tok)]
    ELSE [ok |-> FALSE, v |-> PyNone]

RECURSIVE SumInts(_)
SumInts(vals) == IF vals = <<>> THEN 0 ELSE Head(vals).n + SumInts(Tail(vals))
RECURSIVE ConcatStrs(_)
ConcatStrs(vals) == IF vals = <<>> THEN <<>> ELSE Head(vals).s \o ConcatStrs(Tail(vals))

\* the value of the operands' values: a lone operand's own, else the sum
EvalVals(vals, signed) ==
    IF \E i \in 1..Len(vals) : ~vals[i].ok THEN [err |-> "NameError", v |-> PyNone]
    ELSE IF Len(vals) = 1 /\ ~signed THEN [err |-> "ok", v |-> vals[1].v]
    ELSE IF \A i \in 1..Len(vals) : vals[i].v.t = "int"
    THEN [err |-> "ok", v |-> PyInt(SumInts([i \in 1..Len(vals) |-> vals[i].v]))]
    ELSE IF ~signed /\ \A i \in 1..Len(vals) : vals[i].v.t = "str"
    THEN [err |-> "ok", v |-> PyStr(ConcatStrs([i \in 1..Len(vals) |-> vals[i].v]))]
    ELSE [err |-> "TypeError", v |-> PyNone]

\* atoms: the operands that are not empty, of ntoks in all; an empty operand before a
\* "+" is that "+" read as a sign
EvalAtoms(atoms, ntoks, context) ==
    IF \E i \in 1..Len(atoms) : ~IsIntLiteral(atoms[i]) /\ ~IsName(atoms[i])
    THEN [err |-> "SyntaxError", v |-> PyNone]
    ELSE EvalVals([i \in 1..Len(atoms) |-> Lookup(atoms[i], context)], Len(atoms) < ntoks)

EvalToks(toks, context) ==
    IF toks[Len(toks)] = <<>> THEN [err |-> "SyntaxError", v |-> PyNone]
    ELSE EvalAtoms(SelectSeq(toks, LAMBDA tk : tk # <<>>), Len(toks), context)

PyEval(expr, context) == EvalToks(SplitPlus(expr), context)

(***************************************************************************)
(* Dictionary                                                              *)
(***************************************************************************)
\* elem['key'] and elem['value']: the keyword arguments of an Element
ItemSpec(value, height, width) == [value |-> value, height |-> height, width |-> width]

\* one entry of the structure; hspace and vspace are the entry's own, if it has them
Entry(key, value, hspace, vspace) ==
    [key |-> key, value |-> value, hspace |-> hspace, vspace |-> vspace]

Dictionary(structure, hspace, vspace, context) ==
    [cls |-> "Dictionary", structure |-> structure, hspace |-> hspace,
     vspace |-> vspace, context |-> context]

HasMarker(str) == Len(str) >= Len(EvalMarker) /\ SubSeq(str, 1, Len(EvalMarker)) = EvalMarker

\* a variant of Dictionary_process_value: nothing is evaluated
Dictionary_process_value_AsIs(d, v) == [err |-> "ok", v |-> v]

Dictionary_process_value(d, v) ==
    IF v.t = "str" /\ HasMarker(v.s)
    THEN PyEval(SubSeq(v.s, Len(EvalMarker) + 1, Len(v.s)), d.context)
    ELSE [err |-> "ok", v |-> v]


\* one more member of the list under construction
ConsProcessed(r, rest) ==
    IF r.err # "ok" THEN [err |-> r.err, l |-> <<>>]
    ELSE [err |-> rest.err, l |-> << r.v >> \o rest.l]

\* [ self._process_value(x) for x in members ]: the first failure ends it
RECURSIVE ProcessMembers(_, _)
ProcessMembers(d, members) ==
    IF members = <<>> THEN [err |-> "ok", l |-> <<>>]
    ELSE ConsProcessed(Dictionary_process_value(d, Head(members)),
                       ProcessMembers(d, Tail(members)))

AsList(r) == [err |-> r.err, v |-> PyList(r.l)]

\* the resolved value of elem['value']['value']: a list member by member
ProcessEntryValue(d, v) ==
    IF v.t = "list" THEN AsList(ProcessMembers(d, v.l))
    ELSE Dictionary_process_value(d, v)

\* the second assignment of the loop body, to elem['value']['value']
SetEntryValue(e1, vv) ==
    IF vv.err # "ok" THEN [err |-> vv.err, entry |-> e1]
    ELSE [err |-> "ok", entry |-> [e1 EXCEPT !.value.value = vv.v]]

\* the first, to elem['key']['value'], and then the second
SetEntryKey(d, e0, kv) ==
    IF kv.err # "ok" THEN [err |-> kv.err, entry |-> e0]
    ELSE SetEntryValue([e0 EXCEPT !.key.value = kv.v],
                       ProcessEntryValue(d, e0.value.value))

\* the assignments that open the loop body: they change the entry in place, and what
\* is changed stays changed when a later evaluation raises
ProcessEntry(d, e0) == SetEntryKey(d, e0, Dictionary_process_value(d, e0.key.value))

\* Element(**{**elem['value'], **value}) for a mapping, Element(**{**elem['value'],
\* 'value': value}) for anything else
MemberElement(spec, member) ==
    IF member.t = "dict"
    THEN PlainElement(member.l[1], IF member.n > 0 THEN member.n ELSE spec.height, spec.width)
    ELSE PlainElement(member, spec.height, spec.width)

\* What a draw did and the row it left x at.
DidTo(calls, px, err) == [calls |-> calls, x |-> px, err |-> err]

\* r, which leaves x at px when it raises, and rest after it
ThenTo(r, rest, px) ==
    IF r.err # "ok" THEN DidTo(r.calls, px, r.err)
    ELSE DidTo(r.calls \o rest.calls, rest.x, rest.err)

\* the loop over the members of a list value: each is drawn at (x, y), then x += e.height
RECURSIVE DrawListValue(_, _, _, _)
DrawListValue(spec, members, px, py) ==
    IF members = <<>> THEN DidTo(<<>>, px, "ok")
    ELSE ThenTo(Element_draw(MemberElement(spec, Head(members)), px, py),
                DrawListValue(spec, Tail(members),
                              px + MemberElement(spec, Head(members)).height, py),
                px)

EntryVspace(d, elem) == IF elem.vspace.some THEN elem.vspace.v ELSE d.vspace

\* x += vspace, once the value side is drawn
AddVspace(r, vspace) == DidTo(r.calls, r.x + vspace, r.err)

\* the value side of an entry, drawn from (px, vy): the calls, and x as it leaves it
DrawEntryValue(d, elem, px, vy) ==
    IF elem.value.value.t = "list"
    THEN AddVspace(DrawListValue(elem.value, elem.value.value.l, px, vy),
                   EntryVspace(d, elem))
    ELSE ThenTo(Element_draw(PlainElement(elem.value.value, elem.value.height,
                                          elem.value.width), px, vy),
                DidTo(<<>>, px + elem.value.height + EntryVspace(d, elem), "ok"),
                px)

\* key.draw(x, y, ...); y += self.hspace + 1; then the value side
DrawEntry(d, elem, px, y0) ==
    ThenTo(Element_draw(PlainElement(elem.key.value, elem.key.height, elem.key.width),
                        px, y0),
           DrawEntryValue(d, elem, px, y0 + d.hspace + 1),
           px)

\* What Dictionary.draw did so far, and the structure as it left it.
DidWith(calls, structure, err) == [calls |-> calls, structure |-> structure, err |-> err]

PrependCalls(calls, rest) == DidWith(calls \o rest.calls, rest.structure, rest.err)

\* the loop of Dictionary.draw over entries i.. of the structure
RECURSIVE DrawEntries(_, _, _, _, _)
RECURSIVE EntryDrawn(_, _, _, _, _)
RECURSIVE EntryProcessed(_, _, _, _, _, _)

\* entry i is drawn: the next entry starts where it left x, in column y0
EntryDrawn(d, structure, i, y0, de) ==
    IF de.err # "ok" THEN DidWith(de.calls, structure, de.err)
    ELSE PrependCalls(de.calls, DrawEntries(d, structure, i + 1, de.x, y0))

\* entry i is resolved (p): it is drawn unless an evaluation raised
EntryProcessed(d, structure, i, px, y0, p) ==
    IF p.err # "ok" THEN DidWith(<<>>, [structure EXCEPT ![i] = p.entry], p.err)
    ELSE EntryDrawn(d, [structure EXCEPT ![i] = p.entry], i, y0,
                    DrawEntry(d, p.entry, px, y0))

DrawEntries(d, structure, i, px, y0) ==
    IF i > Len(structure) THEN DidWith(<<>>, structure, "ok")
    ELSE EntryProcessed(d, structure, i, px, y0, ProcessEntry(d, structure[i]))

\* What a draw did to the object it was called on.
Drawn(r, o) == [calls |-> r.calls, obj |-> o, err |-> r.err]

\* the structure keeps what the loop assigned to it
DictionaryDrawn(d, r) ==
    [calls |-> r.calls, obj |-> [d EXCEPT !.structure = r.structure], err |-> r.err]

Dictionary_draw(d, px, py) == DictionaryDrawn(d, DrawEntries(d, d.structure, 1, px, py))

RECURSIVE DictWidthFrom(_, _)
DictWidthFrom(d, entries) ==
    IF entries = <<>> THEN 0
    ELSE LET elem == Head(entries)
             w == elem.key.width + elem.value.width
                  + (IF elem.hspace.some THEN elem.hspace.v ELSE d.hspace)
             m == DictWidthFrom(d, Tail(entries))
         IN  IF w > m THEN w ELSE m

Dictionary_width(d) == DictWidthFrom(d, d.structure)

RECURSIVE SumMemberHeights(_)
\* sum([ e.get('height', 1) for e in members ]) over mappings
SumMemberHeights(members) ==
    IF members = <<>> THEN 0
    ELSE (IF Head(members).n > 0 THEN Head(members).n ELSE 1) + SumMemberHeights(Tail(members))

RECURSIVE DictHeightFrom(_, _)
DictHeightFrom(d, entries) ==
    IF entries = <<>> THEN 0
    ELSE LET elem == Head(entries)
             w == elem.key.height
             members == elem.value.value.l
             \* a member without .get (not a mapping) raises AttributeError
             vw == IF \A i \in 1..Len(members) : members[i].t = "dict"
                   THEN SumMemberHeights(members)
                   ELSE Len(members) * elem.value.height
             h == IF elem.value.value.t = "list" /\ vw > w THEN vw ELSE w
         IN  h + (IF elem.vspace.some THEN elem.vspace.v ELSE d.vspace)
             + DictHeightFrom(d, Tail(entries))

Dictionary_height(d) == DictHeightFrom(d, d.structure)

(***************************************************************************)
(* DataFrame                                                               *)
(***************************************************************************)
\* one column: its label and its cells, which __init__ has made Elements
Column(label, values) == [label |-> label, values |-> values]

\* col_args[label], as far as it sizes cells: the height and width handed to the
\* column's Series (1 and 1 when col_args has nothing for the label)
ColumnArgs(height, width) ==
    [height |-> height, width |-> width, style |-> NoStyle, name_args |-> [comment |-> PyNone]]

\* col_args[label] with a 'style' and, under 'name_args', a comment for the name
\* Element (no 'style' key and the key popped are both {}, no 'name_args' and no
\* comment both None)
ColumnKwargs(height, width, style, comment) ==
    [height |-> height, width |-> width, style |-> style, name_args |-> [comment |-> comment]]

DataFrame(columns, col_args) ==
    [cls |-> "DataFrame", columns |-> columns, col_args |-> col_args]

\* "if self.name": None, 0 and '' are false
NameTruthy(v) ==
    /\ v.t # "none"
    /\ ~(v.t = "int" /\ v.n = 0)
    /\ ~(v.t = "str" /\ v.s = <<>>)

\* Series(col, name_args = nargs, **cargs): the cells are Elements already and stay as
\* they are, the label becomes the name Element(self.name, height, width, ...) unless
\* it is false, horizontal is the default False
ColumnSeries(df, k) ==
    Series(df.columns[k].values, FALSE,
           IF NameTruthy(df.columns[k].label)
           THEN Some(Element(df.columns[k].label, df.col_args[k].height,
                             df.col_args[k].width, df.col_args[k].name_args.comment,
                             "write", CwNone, 2))
           ELSE NoElement,
           CwNone, 2)

\* a variant of ColumnAdvance: one column further, whatever the width of the Series
ColumnAdvance_ByOne(py, col) == py + 1

\* y += col.width
ColumnAdvance(py, col) == py + Series_width(col)

RECURSIVE DrawColumns(_, _, _, _, _)

\* col.draw(x, y, ..., draw_name = draw_names), then the columns after it
ColumnDrawn(df, k, px, py, draw_names, col) ==
    Then(Series_draw(col, px, py, draw_names),
         DrawColumns(df, k + 1, px, ColumnAdvance(py, col), draw_names))

\* the loop of DataFrame.draw over columns k.., in stored order
DrawColumns(df, k, px, py, draw_names) ==
    IF k > Len(df.columns) THEN Did(<<>>, "ok")
    ELSE ColumnDrawn(df, k, px, py, draw_names, ColumnSeries(df, k))

DataFrame_draw(df, px, py, draw_names) == DrawColumns(df, 1, px, py, draw_names)

\* the column at which the loop of DataFrame.draw ends: the first whose draw raises,
\* or the last
RECURSIVE LastColumn(_, _, _, _, _)
LastColumn(df, k, px, py, draw_names) ==
    IF k >= Len(df.columns) THEN Len(df.columns)
    ELSE IF Series_draw(ColumnSeries(df, k), px, py, draw_names).err # "ok" THEN k
    ELSE LastColumn(df, k + 1, px, ColumnAdvance(py, ColumnSeries(df, k)), draw_names)

\* cargs.pop('style', {}) and cargs.pop('name_args', {}): cargs is the mapping that
\* is in col_args, which loses the two keys for every column the loop has reached
Popped(df, upto) ==
    [df EXCEPT !.col_args =
        [k \in 1..Len(df.col_args) |->
            IF k <= upto
            THEN [df.col_args[k] EXCEPT !.style = NoStyle, !.name_args = [comment |-> PyNone]]
            ELSE df.col_args[k]]]

\* what DataFrame.draw did (r), and the table as it left it
DataFrameDrawn(r, df) == [calls |-> r.calls, obj |-> df, err |-> r.err]

\* sum([ y.width for y in x ]) over row r
RECURSIVE RowWidth(_, _)
RowWidth(columns, r) ==
    IF columns = <<>> THEN 0
    ELSE Head(columns).values[r].width + RowWidth(Tail(columns), r)

\* the largest of f[1..n]
RECURSIVE MaxOver(_, _)
MaxOver(f, n) == IF n = 1 THEN f[1] ELSE Max(f[n], MaxOver(f, n - 1))

DataFrame_width(df) ==
    MaxOver([r \in 1..Len(df.columns[1].values) |-> RowWidth(df.columns, r)],
            Len(df.columns[1].values))

DataFrame_height(df) ==
    MaxOver([k \in 1..Len(df.columns) |-> SumHeights(df.columns[k].values)],
            Len(df.columns))

(***************************************************************************)
(* Anything with a draw method and width and height properties.            *)
(***************************************************************************)
NoObject == [cls |-> "None"]

Obj_draw(o, px, py, draw_name) ==
    CASE o.cls = "Element" -> Drawn(Element_draw(o, px, py), o)
      [] o.cls = "Series" -> Drawn(Series_draw(o, px, py, draw_name), o)
      [] o.cls = "Dictionary" -> Dictionary_draw(o, px, py)
      [] o.cls = "DataFrame" ->
            DataFrameDrawn(DataFrame_draw(o, px, py, draw_name),
                           Popped(o, LastColumn(o, 1, px, py, draw_name)))

Obj_width(o) ==
    CASE o.cls = "Element" -> o.width
      [] o.cls = "Series" -> Series_width(o)
      [] o.cls = "Dictionary" -> Dictionary_width(o)
      [] o.cls = "DataFrame" -> DataFrame_width(o)

Obj_height(o) ==
    CASE o.cls = "Element" -> o.height
      [] o.cls = "Series" -> Series_height(o)
      [] o.cls = "Dictionary" -> Dictionary_height(o)
      [] o.cls = "DataFrame" -> DataFrame_height(o)


(***************************************************************************)
(* Drawer                                                                  *)
(***************************************************************************)
\* a variant of DequeAppend: a deque without maxlen, which keeps every entry
DequeAppend_Unbounded(dq, v) == Append(dq, v)

\* deque.append under maxlen = MemLen: the oldest entries leave on overflow
DequeAppend(dq, v) ==
    LET a == Append(dq, v)
    IN  IF Len(a) > MemLen THEN SubSeq(a, Len(a) - MemLen + 1, Len(a)) ELSE a

\* dq[-(1 + n)]: a negative index counts from the right end, any other from the left
DequeBack(dq, n) ==
    LET idx == -(1 + n)
        pos == IF idx < 0 THEN Len(dq) + idx + 1 ELSE idx + 1
    IN  IF pos >= 1 /\ pos <= Len(dq) THEN [err |-> "ok", val |-> dq[pos]]
        ELSE [err |-> "IndexError", val |-> 0]

Drawer_width(n) == DequeBack(widths, n)
Drawer_height(n) == DequeBack(heights, n)

\* a call that returned nothing, or raised err
Called(op, arg, err) == [op |-> op, arg |-> arg, err |-> err, ret |-> <<>>]
\* a call that returned ret
Returned(op, arg, ret) == [op |-> op, arg |-> arg, err |-> "ok", ret |-> ret]

\* a call that raised before it changed anything
Raised(op, arg, err) ==
    /\ last' = Called(op, arg, err)
    /\ out' = <<>>
    /\ UNCHANGED <<x, y, widths, heights, checkpoints, drawn, obj>>

Move(dx, dy) ==
    /\ x' = x + dx
    /\ y' = y + dy
    /\ last' = Called("move", <<dx, dy>>, "ok")
    /\ out' = <<>>
    /\ UNCHANGED <<widths, heights, checkpoints, drawn, obj>>

MoveHorizontal(back) ==
    LET w == IF back THEN Drawer_width(1) ELSE Drawer_width(0)
    IN  IF w.err # "ok" THEN Raised("move_horizontal", <<back>>, w.err)
        ELSE /\ x' = x
             /\ y' = y + w.val
             /\ last' = Called("move_horizontal", <<back>>, "ok")
             /\ out' = <<>>
             /\ UNCHANGED <<widths, heights, checkpoints, drawn, obj>>

MoveVertical(back) ==
    LET h == IF back THEN Drawer_height(1) ELSE Drawer_height(0)
    IN  IF h.err # "ok" THEN Raised("move_vertical", <<back>>, h.err)
        ELSE /\ x' = x + h.val
             /\ y' = y
             /\ last' = Called("move_vertical", <<back>>, "ok")
             /\ out' = <<>>
             /\ UNCHANGED <<widths, heights, checkpoints, drawn, obj>>

AddCheckpoint(name) ==
    /\ checkpoints' = [nm \in DOMAIN checkpoints \cup {name} |->
                          IF nm = name THEN <<x, y>> ELSE checkpoints[nm]]
    /\ last' = Called("add_checkpoint", <<name>>, "ok")
    /\ out' = <<>>
    /\ UNCHANGED <<x, y, widths, heights, drawn, obj>>

\* a variant of Reset: the checkpoint is ignored, x and y are assigned as given
Reset_ToArguments(xa, ya, cp) ==
    /\ x' = IF xa.some THEN xa.v ELSE x
    /\ y' = IF ya.some THEN ya.v ELSE y
    /\ last' = Called("reset", <<xa, ya, cp>>, "ok")
    /\ out' = <<>>
    /\ UNCHANGED <<widths, heights, checkpoints, drawn, obj>>

\* a variant of Reset: the checkpoint is looked up before x and y are tested for None
Reset_LookupFirst(xa, ya, cp) ==
    IF cp.some /\ cp.v \notin DOMAIN checkpoints
    THEN Raised("reset", <<xa, ya, cp>>, "KeyError")
    ELSE /\ x' = IF ~xa.some THEN x ELSE IF cp.some THEN checkpoints[cp.v][1] ELSE xa.v
         /\ y' = IF ~ya.some THEN y ELSE IF cp.some THEN checkpoints[cp.v][2] ELSE ya.v
         /\ last' = Called("reset", <<xa, ya, cp>>, "ok")
         /\ out' = <<>>
         /\ UNCHANGED <<widths, heights, checkpoints, drawn, obj>>

\* xa, ya: None or an int; cp: None or a name
Reset(xa, ya, cp) ==
    IF cp.some /\ (xa.some \/ ya.some) /\ cp.v \notin DOMAIN checkpoints
    THEN Raised("reset", <<xa, ya, cp>>, "KeyError")
    ELSE /\ x' = IF ~xa.some THEN x ELSE IF cp.some THEN checkpoints[cp.v][1] ELSE xa.v
         /\ y' = IF ~ya.some THEN y ELSE IF cp.some THEN checkpoints[cp.v][2] ELSE ya.v
         /\ last' = Called("reset", <<xa, ya, cp>>, "ok")
         /\ out' = <<>>
         /\ UNCHANGED <<widths, heights, checkpoints, drawn, obj>>

Drawer_xl2coords(rng) == xl_cell_to_rowcol(rng)

\* self.x, self.y = self.xl2coords(rng): the right-hand side is computed, and the
\* assignment to self.x raises, x and y being properties without a setter (a string
\* that is no address raises before that, in the library, with an AttributeError too)
XlSet(rng) ==
    IF Drawer_xl2coords(rng).ok THEN Raised("xl_set", <<rng>>, "AttributeError")
    ELSE Raised("xl_set", <<rng>>, "AttributeError")

\* xl_rowcol_to_cell(self.x + x, self.y + y)
Drawer_xl_position(dx, dy) == xl_rowcol_to_cell(x + dx, y + dy)

Drawer_xl_upleft(dx, dy) == Drawer_xl_position(dx, dy)

\* the lower right corner, h and w being what height() and width() gave
LoRight(h, w, dx, dy) ==
    IF h.err # "ok" THEN [err |-> h.err, val |-> <<>>]
    ELSE IF w.err # "ok" THEN [err |-> w.err, val |-> <<>>]
    ELSE [err |-> "ok", val |-> Drawer_xl_position(h.val - 1 + dx, w.val - 1 + dy)]

\* self.xl_position(x=self.height()-1+x, y=self.width()-1+y)
Drawer_xl_loright(dx, dy) == LoRight(Drawer_height(0), Drawer_width(0), dx, dy)

\* the two corners joined, lr being what xl_loright gave
Joined(ul, lr) ==
    IF lr.err # "ok" THEN lr ELSE [err |-> "ok", val |-> ul \o << ":" >> \o lr.val]

\* self.xl_upleft() + ':' + self.xl_loright()
Drawer_xl_range == Joined(Drawer_xl_upleft(0, 0), Drawer_xl_loright(0, 0))

\* a call of xl_range, r being its outcome: it changes nothing
XlRangeDone(r) ==
    /\ last' = IF r.err = "ok" THEN Returned("xl_range", <<>>, r.val)
               ELSE Called("xl_range", <<>>, r.err)
    /\ out' = <<>>
    /\ UNCHANGED <<x, y, widths, heights, checkpoints, drawn, obj>>

XlRange == XlRangeDone(Drawer_xl_range)

\* a variant of Drawer_record: the Drawer moves past the object it has drawn
Drawer_record_Moving(r, draw_name) ==
    /\ out' = r.calls
    /\ obj' = r.obj
    /\ last' = Called("draw", <<draw_name>>, r.err)
    /\ x' = x
    /\ y' = IF r.err = "ok" THEN y + Obj_width(r.obj) ELSE y
    /\ UNCHANGED checkpoints
    /\ IF r.err = "ok"
       THEN /\ widths' = DequeAppend(widths, Obj_width(r.obj))
            /\ heights' = DequeAppend(heights, Obj_height(r.obj))
            /\ drawn' = Append(drawn, <<Obj_width(r.obj), Obj_height(r.obj)>>)
       ELSE UNCHANGED <<widths, heights, drawn>>

\* the appends that end Drawer.draw, r being what elem.draw did
Drawer_record(r, draw_name) ==
    /\ out' = r.calls
    /\ obj' = r.obj
    /\ last' = Called("draw", <<draw_name>>, r.err)
    /\ UNCHANGED <<x, y, checkpoints>>
    /\ IF r.err = "ok"
       THEN /\ widths' = DequeAppend(widths, Obj_width(r.obj))
            /\ heights' = DequeAppend(heights, Obj_height(r.obj))
            /\ drawn' = Append(drawn, <<Obj_width(r.obj), Obj_height(r.obj)>>)
       ELSE UNCHANGED <<widths, heights, drawn>>

\* elem.draw(self.x, self.y, ...), then the appends of elem.width and elem.height
Draw(o, draw_name) == Drawer_record(Obj_draw(o, x, y, draw_name), draw_name)

(***************************************************************************)
(* The Drawer as a state machine: any sequence of its operations on small  *)
(* Elements, from a Drawer created at a nonnegative position.              *)
(***************************************************************************)
Names == {"a", "b"}
AddedNames == {"a"}
Coords == 0..1
MoveSteps == {<<-1, 0>>, <<0, -1>>, <<1, 0>>, <<0, 1>>}
\* two addresses, and a string that is none
Addresses == { << "A", "1" >>, << "B", "3" >>, << "7" >> }
DrawerElements == { PlainElement(PyInt(7), 1, MaxExtent),
                    PlainElement(PyInt(7), MaxExtent, 1) }
\* draws per behaviour: enough for the history to overflow
MaxDraws == MemLen + 1

InRange == x \in -NegPos..MaxPos /\ y \in -NegPos..MaxPos

Init ==
    /\ x \in Coords
    /\ y \in Coords
    /\ widths = <<>>
    /\ heights = <<>>
    /\ checkpoints = <<>>
    /\ drawn = <<>>
    /\ obj = NoObject
    /\ out = <<>>
    /\ last = Called("__init__", <<>>, "ok")

DrawStep == \E e \in DrawerElements :
                Len(drawn) < MaxDraws /\ x >= 0 /\ y >= 0 /\ Draw(e, FALSE)
MoveStep == \E d \in MoveSteps : Move(d[1], d[2]) /\ InRange'
MoveHorizontalStep == \E back \in BOOLEAN : MoveHorizontal(back) /\ InRange'
MoveVerticalStep == \E back \in BOOLEAN : MoveVertical(back) /\ InRange'
AddCheckpointStep == \E nm \in AddedNames : AddCheckpoint(nm)
ResetStep == \E xa \in {NoArg, Some(0)}, ya \in {NoArg, Some(0)},
                cp \in {NoName} \cup {Some(nm) : nm \in Names} : Reset(xa, ya, cp)
XlSetStep == \E rng \in Addresses : XlSet(rng)

Next ==
    \/ DrawStep
    \/ MoveStep
    \/ MoveHorizontalStep
    \/ MoveVerticalStep
    \/ AddCheckpointStep
    \/ ResetStep
    \/ XlSetStep

Spec == Init /\ [][Next]_vars

(***************************************************************************)
(* Properties of the Drawer, checked under Spec.                           *)
(***************************************************************************)
Min(a, b) == IF a < b THEN a ELSE b

\* the calls whose outcome a property looks at
IsCall(call, op) == call.op = op

\* C1: with m >= 1 objects drawn and a history capacity of MemLen, width(k) and
\* height(k) return, for every 0 <= k < min(m, MemLen), the width and the height of the
\* (m-k)-th object drawn, and fail with an IndexError for every k >= min(m, MemLen);
\* the history never holds more than MemLen entries.
C1_History ==
    /\ Len(widths) <= MemLen
    /\ Len(heights) <= MemLen
    /\ Len(drawn) >= 1 =>
         \A k \in 0..(MaxDraws + 1) :
            IF k < Min(Len(drawn), MemLen)
            THEN /\ Drawer_width(k) = [err |-> "ok", val |-> drawn[Len(drawn) - k][1]]
                 /\ Drawer_height(k) = [err |-> "ok", val |-> drawn[Len(drawn) - k][2]]
            ELSE /\ Drawer_width(k).err = "IndexError"
                 /\ Drawer_height(k).err = "IndexError"

\* C1 witness: more objects drawn than the history holds, the evicted one of another
\* size than those that stay, so that width(1) is the second last object's width
C1_Evicted ==
    /\ Len(drawn) = MemLen + 1
    /\ Len(widths) = MemLen
    /\ drawn[1] # drawn[2]
    /\ drawn[Len(drawn) - 1] # drawn[Len(drawn)]
    /\ Drawer_width(1).err = "ok"
    /\ Drawer_width(1).val = drawn[Len(drawn) - 1][1]
    /\ Drawer_width(MemLen).err = "IndexError"

\* C2 as stated: x >= 0 and y >= 0 in every state reachable from a Drawer created at a
\* nonnegative position.
C2_NonNegative == x >= 0 /\ y >= 0

\* C3: add_checkpoint(name) stores the current position under name, replacing what was
\* stored; no other call changes or removes a stored position; and reset(checkpoint =
\* name), with x and y not None (their defaults are 0), sets the position to exactly the
\* position stored under name.
C3_Checkpoint ==
    [][ /\ \A nm \in DOMAIN checkpoints :
              /\ nm \in DOMAIN checkpoints'
              /\ (checkpoints'[nm] # checkpoints[nm]) =>
                     (IsCall(last', "add_checkpoint") /\ last'.arg[1] = nm)
        /\ IsCall(last', "add_checkpoint") =>
              /\ checkpoints'[last'.arg[1]] = <<x, y>>
              /\ <<x', y'>> = <<x, y>>
        /\ ( /\ IsCall(last', "reset")
             /\ last'.arg[3].some
             /\ last'.arg[1].some
             /\ last'.arg[2].some
             /\ last'.arg[3].v \in DOMAIN checkpoints ) =>
              /\ last'.err = "ok"
              /\ <<x', y'>> = checkpoints[last'.arg[3].v]
      ]_vars

\* C3 witness: reset(checkpoint = "a") has brought the Drawer back to the position
\* stored under "a", which is not the position reset's own x and y arguments name, after
\* an object was drawn
C3_Restored ==
    /\ IsCall(last, "reset")
    /\ last.err = "ok"
    /\ last.arg[3] = Some("a")
    /\ last.arg[1].some
    /\ last.arg[2].some
    /\ <<x, y>> = checkpoints["a"]
    /\ <<x, y>> # <<last.arg[1].v, last.arg[2].v>>
    /\ Len(drawn) >= 1

\* C4 as amended: reset with a checkpoint name that was never added fails with a
\* KeyError when at least one of its x and y arguments is not None, and returns
\* normally when both are None; either way the position, the history and the
\* checkpoints are left unchanged.
C4_UndefinedCheckpoint ==
    [][ ( /\ IsCall(last', "reset")
          /\ last'.arg[3].some
          /\ last'.arg[3].v \notin DOMAIN checkpoints ) =>
            /\ last'.err = (IF last'.arg[1].some \/ last'.arg[2].some
                            THEN "KeyError" ELSE "ok")
            /\ UNCHANGED <<x, y, widths, heights, checkpoints>>
      ]_vars

\* C4 witness: reset(x = None, y = None, checkpoint = "b") returned normally though "b"
\* was never added, "a" being stored
C4_NoLookup ==
    /\ IsCall(last, "reset")
    /\ last.arg = <<NoArg, NoArg, Some("b")>>
    /\ last.err = "ok"
    /\ "b" \notin DOMAIN checkpoints
    /\ "a" \in DOMAIN checkpoints

\* C4 as stated: reset with a checkpoint name that was never added fails with a lookup
\* error for every combination of its x and y arguments, None included, and leaves the
\* position, the history and the checkpoints unchanged.
C4_AlwaysFails ==
    [][ ( /\ IsCall(last', "reset")
          /\ last'.arg[3].some
          /\ last'.arg[3].v \notin DOMAIN checkpoints ) =>
            /\ last'.err = "KeyError"
            /\ UNCHANGED <<x, y, widths, heights, checkpoints>>
      ]_vars

\* C5 as amended: Drawer.draw does not move the Drawer: when draw(element) returns, x
\* and y are what they were when the call started, the element was drawn at (x, y), and
\* the element's width and height are the newest entries of the history.
C5_DrawStays ==
    [][ IsCall(last', "draw") =>
            /\ <<x', y'>> = <<x, y>>
            /\ last'.err = "ok" =>
                 /\ out' # <<>>
                 /\ out'[Len(out')].m = "write"
                 /\ <<out'[Len(out')].row, out'[Len(out')].col>> = <<x, y>>
                 /\ widths'[Len(widths')] = Obj_width(obj')
                 /\ heights'[Len(heights')] = Obj_height(obj')
      ]_vars

\* C5 witness: an object wider than one column was drawn, and the Drawer is where it
\* was drawn
C5_Drawn ==
    /\ IsCall(last, "draw")
    /\ last.err = "ok"
    /\ Obj_width(obj) > 1
    /\ out[Len(out)].m = "write"
    /\ <<out[Len(out)].row, out[Len(out)].col>> = <<x, y>>

\* C5 as stated: when Drawer.draw(element) returns, the position differs from the
\* position the Drawer had when the call started.
C5_DrawAdvances ==
    [][ (IsCall(last', "draw") /\ last'.err = "ok") => <<x', y'>> # <<x, y>> ]_vars

\* C6 as stated: move_horizontal(back=True) decreases y by width(1) and leaves x, and
\* move_vertical(back=True) decreases x by height(1) and leaves y; with back=False they
\* increase y by width(0), x by height(0).
C6_MoveBack ==
    [][ /\ (IsCall(last', "move_horizontal") /\ last'.err = "ok") =>
              /\ x' = x
              /\ y' = IF last'.arg[1] THEN y - Drawer_width(1).val
                      ELSE y + Drawer_width(0).val
        /\ (IsCall(last', "move_vertical") /\ last'.err = "ok") =>
              /\ y' = y
              /\ x' = IF last'.arg[1] THEN x - Drawer_height(1).val
                      ELSE x + Drawer_height(0).val
      ]_vars

\* C7 as stated: after xl_set(rng) returns for a valid address rng, (x, y) equals
\* xl2coords(rng), and history and checkpoints are unchanged.
C7_XlSet ==
    [][ (IsCall(last', "xl_set") /\ Drawer_xl2coords(last'.arg[1]).ok) =>
            /\ last'.err = "ok"
            /\ x' = Drawer_xl2coords(last'.arg[1]).row
            /\ y' = Drawer_xl2coords(last'.arg[1]).col
            /\ UNCHANGED <<widths, heights, checkpoints>>
      ]_vars

(***************************************************************************)
(* Element.xl_upleft / xl_loright / xl_range as a state machine: an        *)
(* Element of any height and width up to MaxExtent + 1, asked for its      *)
(* addresses at positions on both sides of the places where an address     *)
(* gets a letter or a digit more.                                          *)
(***************************************************************************)
ElemRows == {0, 8, 9, 98, 99}
ElemCols == {0, 24, 25, 26, 700, 701, 702}
ElemSizes == 1..(MaxExtent + 1)
ElemObjects == { PlainElement(PyInt(7), h, w) : h \in ElemSizes, w \in ElemSizes }

\* a call of a method that changes nothing and returns ret
Reads(op, ret) ==
    /\ last' = Returned(op, <<>>, ret)
    /\ out' = <<>>
    /\ UNCHANGED <<x, y, widths, heights, checkpoints, drawn, obj>>

InitElem ==
    /\ x \in ElemRows
    /\ y \in ElemCols
    /\ widths = <<>>
    /\ heights = <<>>
    /\ checkpoints = <<>>
    /\ drawn = <<>>
    /\ obj \in ElemObjects
    /\ out = <<>>
    /\ last = Called("__init__", <<>>, "ok")

XlUpleftStep == Reads("xl_upleft", Element_xl_upleft(obj, x, y))
XlLorightStep == Reads("xl_loright", Element_xl_loright(obj, x, y))
XlRangeStep == Reads("xl_range", Element_xl_range(obj, x, y))

NextElem ==
    \/ XlUpleftStep
    \/ XlLorightStep
    \/ XlRangeStep

SpecElem == InitElem /\ [][NextElem]_vars

\* the two addresses of a range string, read back as (row, column) pairs
RangeFrom(rng) == xl_cell_to_rowcol(SubSeq(rng, 1, ColonAt(rng) - 1))
RangeTo(rng) == xl_cell_to_rowcol(SubSeq(rng, ColonAt(rng) + 1, Len(rng)))

\* C8: for an Element of positive height and width at any position (x, y), xl_range(x,
\* y) is two addresses around one colon; the first is the address of (x, y) and the
\* second the address of (x + height - 1, y + width - 1), height - 1 rows and width - 1
\* columns away.
C8_Range ==
    IsCall(last, "xl_range") =>
        /\ ColonAt(last.ret) > 1
        /\ ColonAt(last.ret) < Len(last.ret)
        /\ RangeFrom(last.ret) = [ok |-> TRUE, row |-> x, col |-> y]
        /\ RangeTo(last.ret) = [ok |-> TRUE, row |-> x + obj.height - 1,
                                col |-> y + obj.width - 1]
        /\ RangeTo(last.ret).row - RangeFrom(last.ret).row = obj.height - 1
        /\ RangeTo(last.ret).col - RangeFrom(last.ret).col = obj.width - 1

\* C8 witness: the range of an Element three columns wide and two rows high whose
\* upper-left corner is in column Z and row 9 and whose lower-right corner is in column
\* AB and row 10
C8_AcrossZ ==
    /\ IsCall(last, "xl_range")
    /\ last.ret = << "Z", "9", ":", "A", "B", "1", "0" >>
    /\ obj.height = 2
    /\ obj.width = 3

(***************************************************************************)
(* Series.draw as a state machine: a Drawer handed a Series of one to      *)
(* MaxMembers Elements of different sizes, horizontal or vertical, with or *)
(* without a name, drawn with and without draw_name.                       *)
(***************************************************************************)
MaxMembers == 3
Shapes == { <<1, 1>>, <<1, 2>>, <<2, 1>> }
ShapeSeqs == UNION { [1..n -> Shapes] : n \in 1..MaxMembers }
\* member i shows i, so that the order of the writes is visible
SeriesMembers(shapes) == [i \in 1..Len(shapes) |-> PlainElement(PyInt(i), shapes[i][1], shapes[i][2])]
NameElement == PlainElement(PyStr(<< "n" >>), 2, 2)
SeriesObjects == { Series(SeriesMembers(sh), hz, nm, CwNone, 2) :
                       sh \in ShapeSeqs, hz \in BOOLEAN, nm \in {NoElement, Some(NameElement)} }

InitSeries ==
    /\ x \in Coords
    /\ y \in Coords
    /\ widths = <<>>
    /\ heights = <<>>
    /\ checkpoints = <<>>
    /\ drawn = <<>>
    /\ obj \in SeriesObjects
    /\ out = <<>>
    /\ last = Called("__init__", <<>>, "ok")

SeriesDrawStep == \E draw_name \in BOOLEAN : Len(drawn) < 1 /\ Draw(obj, draw_name)

NextSeries == SeriesDrawStep

SpecSeries == InitSeries /\ [][NextSeries]_vars

\* the write calls among calls, in order
Writes(calls) == SelectSeq(calls, LAMBDA c : c.m = "write")

\* the widths (heights) of the members before member i
WidthsBefore(elems, i) == SumWidths(SubSeq(elems, 1, i - 1))
HeightsBefore(elems, i) == SumHeights(SubSeq(elems, 1, i - 1))

\* whether the last draw drew the name
NameDrawn == last.arg[1] /\ obj.name.some
NameWidth == IF NameDrawn THEN obj.name.v.width ELSE 0
NameHeight == IF NameDrawn THEN obj.name.v.height ELSE 0
NameWrites == IF NameDrawn THEN 1 ELSE 0

\* C9: a horizontal Series of N members drawn at (x, y) is written in member order,
\* after the name if the name is drawn, member i at row x and at column y + (the name's
\* width if the name is drawn) + the widths of the members before it; a vertical Series
\* at column y and at row x + (the name's height if drawn) + the heights of the members
\* before it.
C9_SeriesLayout ==
    (IsCall(last, "draw") /\ obj.cls = "Series") =>
        /\ last.err = "ok"
        /\ Len(Writes(out)) = Len(obj.values) + NameWrites
        /\ NameDrawn =>
             /\ Writes(out)[1].val = obj.name.v.value
             /\ <<Writes(out)[1].row, Writes(out)[1].col>> = <<x, y>>
        /\ \A i \in 1..Len(obj.values) :
             /\ Writes(out)[i + NameWrites].val = obj.values[i].value
             /\ Writes(out)[i + NameWrites].row =
                    IF obj.horizontal THEN x
                    ELSE x + NameHeight + HeightsBefore(obj.values, i)
             /\ Writes(out)[i + NameWrites].col =
                    IF obj.horizontal THEN y + NameWidth + WidthsBefore(obj.values, i)
                    ELSE y

\* C9 witness: a horizontal Series of three members, the first two of widths 2 and 1,
\* drawn with its name: the third is written three columns after the first
C9_HorizontalNamed ==
    /\ IsCall(last, "draw")
    /\ obj.cls = "Series"
    /\ obj.horizontal
    /\ NameDrawn
    /\ Len(obj.values) = 3
    /\ obj.values[1].width = 2
    /\ obj.values[2].width = 1
    /\ Writes(out)[4].col = Writes(out)[2].col + 3
    /\ Writes(out)[4].row = x

(***************************************************************************)
(* Dictionary.draw as a state machine: a Drawer handed a Dictionary of one *)
(* to MaxEntries entries whose keys, values and list members are plain or  *)
(* begin with the marker, with and without the name n in the context.      *)
(***************************************************************************)
MaxEntries == 2
Marked(expr) == PyStr(EvalMarker \o expr)
DictKeys == { PyStr(<< "k" >>), Marked(<< "n" >>) }
DictScalars == { PyStr(<< "v" >>), PyInt(5), Marked(<< "1", "+", "1" >>),
                 Marked(<< "n", "+", "1" >>), Marked(<< "z", "z" >>),
                 Marked(<< "_", "_", "n", "a", "m", "e", "_", "_" >>) }
DictLists == { PyList(<< Marked(<< "1", "+", "1" >>), PyStr(<< "v" >>) >>),
               PyList(<< PyStr(<< "v" >>), PyDict(Marked(<< "1", "+", "1" >>), 0),
                         Marked(<< "n" >>) >>) }
DictEntries == { Entry(ItemSpec(k, 1, 1), ItemSpec(v, 1, 1), NoArg, NoArg) :
                     k \in DictKeys, v \in DictScalars \cup DictLists }
DictStructures == UNION { [1..n -> DictEntries] : n \in 1..MaxEntries }
DictContexts == { [nm \in {} |-> PyNone], [nm \in { << "n" >> } |-> PyInt(3)] }
DictObjects == { Dictionary(st, 1, 0, ctx) : st \in DictStructures, ctx \in DictContexts }

InitDict ==
    /\ x \in Coords
    /\ y \in Coords
    /\ widths = <<>>
    /\ heights = <<>>
    /\ checkpoints = <<>>
    /\ drawn = <<>>
    /\ obj \in DictObjects
    /\ out = <<>>
    /\ last = Called("__init__", <<>>, "ok")

DictDrawStep == Len(drawn) < MaxDraws /\ Draw(obj, FALSE)

NextDict == DictDrawStep

SpecDict == InitDict /\ [][NextDict]_vars

\* what an entry shows, in the order it is drawn: its key, then its value or the
\* members of its list value
EntryItems(e) ==
    << e.key.value >> \o (IF e.value.value.t = "list" THEN e.value.value.l
                          ELSE << e.value.value >>)
RECURSIVE StructureItems(_)
StructureItems(st) ==
    IF st = <<>> THEN <<>> ELSE EntryItems(Head(st)) \o StructureItems(Tail(st))

\* what is to be written for an item: for a string that begins with the marker the
\* value of the text after the marker, for a mapping its 'value' as it stands, for
\* anything else the item itself
Expected(item, context) ==
    IF item.t = "dict" THEN item.l[1]
    ELSE IF item.t = "str" /\ HasMarker(item.s)
    THEN PyEval(SubSeq(item.s, Len(EvalMarker) + 1, Len(item.s)), context).v
    ELSE item

EvalFailures == {"NameError", "SyntaxError", "TypeError"}

\* C10: when a Dictionary is drawn, the writes are, in order, those of its keys, values
\* and list members: one that is a string beginning with @eval@ is written as the value
\* of the text after the marker in the context ("@eval@1+1" as 2), any other unchanged
\* (of a list member that is a mapping the 'value' is written as it stands).  Every item
\* is written unless an evaluation raises, which ends the draw before the entry is
\* written.
C10_Evaluated ==
    [][ (IsCall(last', "draw") /\ obj.cls = "Dictionary") =>
            /\ Len(Writes(out')) <= Len(StructureItems(obj.structure))
            /\ \A i \in 1..Len(Writes(out')) :
                 /\ Writes(out')[i].val = Expected(StructureItems(obj.structure)[i], obj.context)
                 /\ StructureItems(obj.structure)[i] = Marked(<< "1", "+", "1" >>) =>
                        Writes(out')[i].val = PyInt(2)
                 /\ ( \/ StructureItems(obj.structure)[i].t \notin {"str", "dict"}
                      \/ /\ StructureItems(obj.structure)[i].t = "str"
                         /\ ~HasMarker(StructureItems(obj.structure)[i].s) ) =>
                        Writes(out')[i].val = StructureItems(obj.structure)[i]
            /\ last'.err \in {"ok"} \cup EvalFailures
            /\ last'.err = "ok" =>
                 Len(Writes(out')) = Len(StructureItems(obj.structure))
      ]_vars

\* C10 witness: a Dictionary was drawn to its end with n = 3 in the context: 2 was
\* written (for "@eval@1+1"), 3 (for "@eval@n"), and a plain "v"
C10_TwoWritten ==
    /\ IsCall(last, "draw")
    /\ obj.cls = "Dictionary"
    /\ last.err = "ok"
    /\ << "n" >> \in DOMAIN obj.context
    /\ \E i \in 1..Len(Writes(out)) : Writes(out)[i].val = PyInt(2)
    /\ \E i \in 1..Len(Writes(out)) : Writes(out)[i].val = PyInt(3)
    /\ \E i \in 1..Len(Writes(out)) : Writes(out)[i].val = PyStr(<< "v" >>)

(***************************************************************************)
(* The names an @eval@ expression can use.                                 *)
(***************************************************************************)
IsMarked(item) == item.t = "str" /\ HasMarker(item.s)

\* the names in the expression of a marked item
NamesOf(item) ==
    LET toks == SplitPlus(SubSeq(item.s, Len(EvalMarker) + 1, Len(item.s)))
    IN  { toks[i] : i \in { j \in 1..Len(toks) : IsName(toks[j]) } }

\* the item's expression uses a name that the context does not bind
OutsideContext(item, context) ==
    IsMarked(item) /\ \E nm \in NamesOf(item) : nm \notin DOMAIN context

\* the item's expression uses a name that nothing binds: not the context, not the
\* elements module, not the builtins
Unbound(item, context) ==
    IsMarked(item) /\ \E nm \in NamesOf(item) :
        nm \notin DOMAIN context \cup ModuleGlobals \cup Builtins \cup { << "N", "o", "n", "e" >> }

Valid(v) == [err |-> "ok", v |-> v]
Invalid(err, v) == [err |-> err, v |-> v]

\* int(x) and float(x) of a raw value: ok is FALSE where the conversion raises
ToNumber(raw) ==
    IF raw.t = "int" THEN [ok |-> TRUE, n |-> raw.n]
    ELSE IF raw.t = "str" /\ raw.s # <<>> /\ \A i \in 1..Len(raw.s) : IsDigit(raw.s[i])
    THEN [ok |-> TRUE, n |-> IntOfDigits(raw.s)]
    ELSE [ok |-> FALSE, n |-> 0]

\* a variant of validate_number: the conditions are not tested
validate_number_Unchecked(raw, least) ==
    IF ~ToNumber(raw).ok THEN Invalid("ValueError", 0)
    ELSE Valid(ToNumber(raw).n)

\* validate_param(value, name, int or float, True, 'x > 0' or 'x >= 0'): a value that
\* cannot be coerced is a ValueError, one below least an AssertionError
validate_number(raw, least) ==
    IF ~ToNumber(raw).ok THEN Invalid("ValueError", 0)
    ELSE IF ToNumber(raw).n < least THEN Invalid("AssertionError", 0)
    ELSE Valid(ToNumber(raw).n)

\* validate_param(value, 'col_width', (float, str, type(None)), the coercion that
\* leaves a str and None alone, 'x > 0 if isinstance(x, float) else True'): every
\* string passes
validate_col_width(raw) ==
    IF raw.t = "none" THEN Valid(CwNone)
    ELSE IF raw.t = "str"
    THEN Valid(IF raw.s = << "a", "u", "t", "o" >> THEN CwAuto ELSE CwStr)
    ELSE IF raw.t # "int" THEN Invalid("ValueError", CwNone)
    ELSE IF raw.n <= 0 THEN Invalid("AssertionError", CwNone)
    ELSE Valid(CwFloat(raw.n))

\* What an assignment or a construction did: the object as it is after it.
Assigned(e, err) == [err |-> err, obj |-> e]

\* the setters: self._height = validate_param(...), and so on.  The attribute is
\* assigned once validate_param has returned
SetHeight(e, r) == IF r.err = "ok" THEN Assigned([e EXCEPT !.height = r.v], "ok")
                   ELSE Assigned(e, r.err)
SetWidth(e, r) == IF r.err = "ok" THEN Assigned([e EXCEPT !.width = r.v], "ok")
                  ELSE Assigned(e, r.err)
SetPadding(e, r) == IF r.err = "ok" THEN Assigned([e EXCEPT !.padding = r.v], "ok")
                    ELSE Assigned(e, r.err)
SetColWidth(e, r) == IF r.err = "ok" THEN Assigned([e EXCEPT !.col_width = r.v], "ok")
                     ELSE Assigned(e, r.err)

Element_set(e, attr, raw) ==
    CASE attr = "height" -> SetHeight(e, validate_number(raw, 1))
      [] attr = "width" -> SetWidth(e, validate_number(raw, 1))
      [] attr = "padding" -> SetPadding(e, validate_number(raw, 0))
      [] attr = "col_width" -> SetColWidth(e, validate_col_width(raw))

\* the assignments of Element.__init__, in their order: the first that raises ends it
RECURSIVE SetAll(_, _, _)
SetNext(r, attrs, raws) == IF r.err # "ok" THEN r ELSE SetAll(r.obj, attrs, raws)
SetAll(e, attrs, raws) ==
    IF attrs = <<>> THEN Assigned(e, "ok")
    ELSE SetNext(Element_set(e, Head(attrs), Head(raws)), Tail(attrs), Tail(raws))

Element_new(value, height, width, comment, write_method, col_width, padding) ==
    SetAll(Element(value, 0, 0, comment, write_method, CwNone, 0),
           << "height", "width", "col_width", "padding" >>,
           << height, width, col_width, padding >>)

(***************************************************************************)
(* The life of an Element as a state machine: it is constructed from       *)
(* arguments valid or not, its attributes are assigned values valid or     *)
(* not, and it is handed to a Drawer.                                      *)
(***************************************************************************)
ElemValues == { PyNone, PyStr(<< "a", "b", "c", "d" >>),
                PyTuple(<< PyStr(<< "a" >>), PyStr(<< "b" >>) >>) }
ElemComments == { PyNone, PyStr(<< "c" >>) }
WriteMethods == { "write", "write_rich_string" }
SizeRaws == { PyInt(0), PyInt(1), PyInt(MaxExtent), PyStr(<< "x" >>) }
ColWidthRaws == { PyNone, PyStr(<< "a", "u", "t", "o" >>), PyStr(<< "w", "i", "d", "e" >>),
                  PyInt(3), PyInt(0), PyList(<<>>) }
PaddingRaws == { PyInt(2), PyInt(0), PyInt(-1) }
AttrRaws(attr) ==
    CASE attr = "height" -> SizeRaws
      [] attr = "width" -> SizeRaws
      [] attr = "padding" -> PaddingRaws
      [] attr = "col_width" -> ColWidthRaws
Attrs == { "height", "width", "padding", "col_width" }

InitLife ==
    /\ x \in Coords
    /\ y \in Coords
    /\ widths = <<>>
    /\ heights = <<>>
    /\ checkpoints = <<>>
    /\ drawn = <<>>
    /\ obj = NoObject
    /\ out = <<>>
    /\ last = Called("__init__", <<>>, "ok")

\* Element(...): there is an Element once every assignment of __init__ has passed
Constructed(r, args) ==
    /\ obj' = IF r.err = "ok" THEN r.obj ELSE NoObject
    /\ last' = Called("Element", args, r.err)
    /\ out' = <<>>
    /\ UNCHANGED <<x, y, widths, heights, checkpoints, drawn>>

\* one construction per behaviour
NewElementStep ==
    /\ IsCall(last, "__init__")
    /\ obj.cls = "None"
    /\ \E value \in ElemValues, comment \in ElemComments, wm \in WriteMethods,
          h \in SizeRaws, w \in SizeRaws, cw \in ColWidthRaws, p \in PaddingRaws :
            Constructed(Element_new(value, h, w, comment, wm, cw, p), <<h, w, cw, p>>)

\* elem.attr = raw
AssignedTo(r, attr, raw) ==
    /\ obj' = r.obj
    /\ last' = Called("setattr", <<attr, raw>>, r.err)
    /\ out' = <<>>
    /\ UNCHANGED <<x, y, widths, heights, checkpoints, drawn>>

SetAttrStep ==
    /\ obj.cls = "Element"
    /\ \E attr \in Attrs : \E raw \in AttrRaws(attr) :
            AssignedTo(Element_set(obj, attr, raw), attr, raw)

ElemDrawStep == obj.cls = "Element" /\ Len(drawn) < 1 /\ Draw(obj, FALSE)

NextLife ==
    \/ NewElementStep
    \/ SetAttrStep
    \/ ElemDrawStep

SpecLife == InitLife /\ [][NextLife]_vars

(***************************************************************************)
(* Properties of Element, checked under SpecLife.                          *)
(***************************************************************************)
\* the calls of one worksheet method among calls, in order
CallsOf(calls, method) == SelectSeq(calls, LAMBDA c : c.m = method)

ElementDrawn == IsCall(last, "draw") /\ obj.cls = "Element"

\* C12: drawing an Element whose col_width is 'auto' and whose value is None writes
\* the cell, None at (x, y), makes no set_column call and raises no error; drawing an
\* Element whose col_width is None writes the cell, makes no set_column call and raises
\* no error.
C12_NoAdjustment ==
    /\ (ElementDrawn /\ obj.col_width = CwAuto /\ obj.value = PyNone) =>
          /\ last.err = "ok"
          /\ CallsOf(out, "set_column") = <<>>
          /\ \E i \in 1..Len(out) :
                /\ out[i].m = obj.write_method
                /\ <<out[i].row, out[i].col>> = <<x, y>>
                /\ out[i].val = PyNone
    /\ (ElementDrawn /\ obj.col_width = CwNone) =>
          /\ last.err = "ok"
          /\ CallsOf(out, "set_column") = <<>>
          /\ CallsOf(out, obj.write_method) # <<>>

\* C12 witness: an Element more than one column wide, with col_width 'auto', a padding
\* and the value None, was drawn
C12_AutoNone ==
    /\ ElementDrawn
    /\ obj.col_width = CwAuto
    /\ obj.value = PyNone
    /\ obj.width > 1
    /\ obj.padding > 0
    /\ last.err = "ok"
    /\ out # <<>>

\* C13 as stated: draw attaches the comment of every Element whose comment is not
\* None at the Element's upper-left address, whatever its write method and value, and
\* attaches none for an Element without a comment.
C13_CommentAttached ==
    ElementDrawn =>
        IF obj.comment # PyNone
        THEN CallsOf(out, "write_comment") = << CommentCall(Element_xl_upleft(obj, x, y), obj.comment) >>
        ELSE CallsOf(out, "write_comment") = <<>>

\* the total a drawn Element's columns are to share: col_width, or for 'auto' the
\* length of str(value) and the padding on both sides
TotalWidth(e) ==
    IF e.col_width.k = "float" THEN e.col_width.v
    ELSE Len(PyStrOf(e.value)) + 2 * e.padding

\* C14 as stated: an Element of width w drawn with col_width set has each of the w
\* columns it spans set to T / w, T being col_width for a number and len(str(value)) +
\* 2 * padding for 'auto'.
C14_EvenShare ==
    ( /\ ElementDrawn
      /\ \/ obj.col_width.k = "float"
         \/ obj.col_width.k = "auto" /\ obj.value # PyNone ) =>
        /\ last.err = "ok"
        /\ Len(CallsOf(out, "set_column")) = 1
        /\ CallsOf(out, "set_column")[1].col = y
        /\ CallsOf(out, "set_column")[1].col2 = y + obj.width - 1
        /\ CallsOf(out, "set_column")[1].num * obj.width
              = TotalWidth(obj) * CallsOf(out, "set_column")[1].den

\* what is no col_width: anything but None, 'auto' and a positive number
InvalidColWidth(raw) ==
    ~ ( \/ raw.t = "none"
        \/ raw = PyStr(<< "a", "u", "t", "o" >>)
        \/ raw.t = "int" /\ raw.n > 0 )

\* C15 as stated: an invalid col_width fails at construction and at assignment, the
\* Element's col_width staying what it was, so that no draw of an Element with an
\* invalid col_width writes a cell.
C15_InvalidRejected ==
    [][ /\ (IsCall(last', "Element") /\ InvalidColWidth(last'.arg[3])) => last'.err # "ok"
        /\ ( /\ IsCall(last', "setattr")
             /\ last'.arg[1] = "col_width"
             /\ InvalidColWidth(last'.arg[2]) ) =>
              /\ last'.err # "ok"
              /\ obj' = obj
        /\ (IsCall(last', "draw") /\ obj.cls = "Element" /\ obj.col_width.k = "str") =>
              out' = <<>>
      ]_vars

MembersSet(members, err) == [err |-> err, l |-> members]

ConsMember(e, rest) == MembersSet(<< e >> \o rest.l, rest.err)

RECURSIVE SetMembers(_, _, _)
\* member i is assigned (r): the loop goes on unless the setter raised
MemberSet(r, elems, propname, vals) ==
    IF r.err # "ok" THEN MembersSet(elems, r.err)
    ELSE ConsMember(r.obj, SetMembers(Tail(elems), propname, Tail(vals)))

\* for i, val in zip(sr.index, value): setattr(sr[i], propname, val)
SetMembers(elems, propname, vals) ==
    IF elems = <<>> THEN MembersSet(<<>>, "ok")
    ELSE MemberSet(Element_set(Head(elems), propname, Head(vals)), elems, propname, vals)

SeriesSet(sr, r) == Assigned([sr EXCEPT !.values = r.l], r.err)

\* a variant of Series_setprop: a list of another length is not refused, and nothing
\* is assigned
Series_setprop_Unchecked(sr, propname, value, inplace) ==
    IF value.t = "list"
    THEN IF Len(value.l) # Len(sr.values) THEN Assigned(sr, "ok")
         ELSE SeriesSet(sr, SetMembers(sr.values, propname, value.l))
    ELSE SeriesSet(sr, SetMembers(sr.values, propname,
                                  [i \in 1..Len(sr.values) |-> value]))

\* sr = self if inplace else self.copy(): the copy is another container of the same
\* Element objects, so with either inplace the members assigned to are those of self
Series_setprop(sr, propname, value, inplace) ==
    IF value.t = "list"
    THEN IF Len(value.l) # Len(sr.values) THEN Assigned(sr, "ValueError")
         ELSE SeriesSet(sr, SetMembers(sr.values, propname, value.l))
    ELSE SeriesSet(sr, SetMembers(sr.values, propname,
                                  [i \in 1..Len(sr.values) |-> value]))

(***************************************************************************)
(* Series.setprop as a state machine: height and width of the members of a *)
(* Series are set, to one value or to a list of values, of the length of   *)
(* the Series or not, valid or not.                                        *)
(***************************************************************************)
PropNames == { "height", "width" }
ListsOf(n) == { PyList(l) : l \in [1..n -> { PyInt(1), PyInt(2) }] }
PropValues == { PyInt(1), PyInt(2), PyInt(0), PyList(<< PyInt(2), PyInt(0) >>) }
                  \cup UNION { ListsOf(n) : n \in 1..MaxMembers }

\* what setprop returns: self unless inplace
SetPropDone(r, propname, value, inplace) ==
    /\ obj' = r.obj
    /\ last' = [op |-> "setprop", arg |-> <<propname, value, inplace>>, err |-> r.err,
                ret |-> IF r.err = "ok" /\ ~inplace THEN << "self" >> ELSE <<>>]
    /\ out' = <<>>
    /\ UNCHANGED <<x, y, widths, heights, checkpoints, drawn>>

SetPropStep ==
    \E propname \in PropNames, value \in PropValues, inplace \in BOOLEAN :
        SetPropDone(Series_setprop(obj, propname, value, inplace), propname, value, inplace)

NextSetProp == SetPropStep

InitSetProp ==
    /\ x = 0
    /\ y = 0
    /\ widths = <<>>
    /\ heights = <<>>
    /\ checkpoints = <<>>
    /\ drawn = <<>>
    /\ obj \in { Series(SeriesMembers(sh), FALSE, NoElement, CwNone, 2) : sh \in ShapeSeqs }
    /\ out = <<>>
    /\ last = Called("__init__", <<>>, "ok")

SpecSetProp == InitSetProp /\ [][NextSetProp]_vars

\* the attribute of a member that setprop names
PropOf(e, propname) == IF propname = "height" THEN e.height ELSE e.width
\* and the other
OtherOf(e, propname) == IF propname = "height" THEN e.width ELSE e.height

\* every number of the value can be a height or a width
AllPositive(value) ==
    IF value.t = "list" THEN \A i \in 1..Len(value.l) : value.l[i].n >= 1
    ELSE value.n >= 1

\* C17: Series.setprop(name, value) with a list whose length is not the number of
\* members raises a ValueError and changes no member; with a list of that length
\* member i gets value[i]; with any other value every member gets that value.  (The
\* values being valid for the property; nothing else of a member changes.)
C17_SetProp ==
    [][ IsCall(last', "setprop") =>
          IF last'.arg[2].t = "list" /\ Len(last'.arg[2].l) # Len(obj.values)
          THEN last'.err = "ValueError" /\ obj' = obj
          ELSE /\ AllPositive(last'.arg[2]) => last'.err = "ok"
               /\ last'.err = "ok" =>
                    /\ Len(obj'.values) = Len(obj.values)
                    /\ \A i \in 1..Len(obj.values) :
                          /\ PropOf(obj'.values[i], last'.arg[1]) =
                                IF last'.arg[2].t = "list" THEN last'.arg[2].l[i].n
                                ELSE last'.arg[2].n
                          /\ OtherOf(obj'.values[i], last'.arg[1]) =
                                OtherOf(obj.values[i], last'.arg[1])
                          /\ obj'.values[i].value = obj.values[i].value
      ]_vars

\* C17 witness: the widths of a Series of three members were set from a list of three
\* numbers not all the same
C17_PerMember ==
    /\ IsCall(last, "setprop")
    /\ last.err = "ok"
    /\ last.arg[1] = "width"
    /\ last.arg[2].t = "list"
    /\ Len(last.arg[2].l) = 3
    /\ last.arg[2].l[1] # last.arg[2].l[2]
    /\ \A i \in 1..3 : obj.values[i].width = last.arg[2].l[i].n

(***************************************************************************)
(* The columns of a Dictionary: a Drawer handed a Dictionary whose keys    *)
(* are 1 to MaxExtent columns wide, whose entries have or have not their   *)
(* own hspace, and whose values are single or lists.                       *)
(***************************************************************************)
LayoutHspaces == { NoArg, Some(0), Some(2) }
LayoutValues == { PyStr(<< "v" >>), PyList(<< PyStr(<< "v" >>), PyStr(<< "w" >>) >>) }
LayoutEntries == { Entry(ItemSpec(PyStr(<< "k" >>), 1, kw), ItemSpec(v, 1, 1), hs, NoArg) :
                       kw \in 1..MaxExtent, v \in LayoutValues, hs \in LayoutHspaces }
LayoutStructures == UNION { [1..n -> LayoutEntries] : n \in 1..MaxEntries }
LayoutObjects == { Dictionary(st, hs, 0, [nm \in {} |-> PyNone]) :
                       st \in LayoutStructures, hs \in 0..1 }

InitLayout ==
    /\ x \in Coords
    /\ y \in Coords
    /\ widths = <<>>
    /\ heights = <<>>
    /\ checkpoints = <<>>
    /\ drawn = <<>>
    /\ obj \in LayoutObjects
    /\ out = <<>>
    /\ last = Called("__init__", <<>>, "ok")

LayoutDrawStep == Len(drawn) < 1 /\ Draw(obj, FALSE)

NextLayout == LayoutDrawStep

SpecLayout == InitLayout /\ [][NextLayout]_vars

\* the hspace of an entry: its own if it has one, else the Dictionary's
EntryHspace(d, elem) == IF elem.hspace.some THEN elem.hspace.v ELSE d.hspace

\* how many items the value side of an entry shows
ValueCount(elem) == IF elem.value.value.t = "list" THEN Len(elem.value.value.l) ELSE 1

\* the columns the items of a Dictionary drawn at column y0 are said to be written at,
\* in the order they are drawn: a key at y0, the items of its value at
\* y0 + hspace + the key's width
RECURSIVE StatedColumns(_, _, _)
StatedColumns(d, st, y0) ==
    IF st = <<>> THEN <<>>
    ELSE << y0 >>
         \o [ i \in 1..ValueCount(Head(st)) |->
                  y0 + EntryHspace(d, Head(st)) + Head(st).key.width ]
         \o StatedColumns(d, Tail(st), y0)

\* C18: when a Dictionary is drawn at (x, y0), every entry's key is written at column
\* y0 and the entry's value (each member of a list value) at column
\* y0 + hspace + key_width, key_width the width of the entry's key and hspace the
\* entry's own hspace if it has one, else the Dictionary's.
C18_ValueColumn ==
    (IsCall(last, "draw") /\ obj.cls = "Dictionary" /\ last.err = "ok") =>
        /\ Len(Writes(out)) = Len(StatedColumns(obj, obj.structure, y))
        /\ \A i \in 1..Len(Writes(out)) :
             Writes(out)[i].col = StatedColumns(obj, obj.structure, y)[i]

(***************************************************************************)
(* DataFrame.draw as a state machine: a Drawer handed a table of 1 to      *)
(* MaxColumns columns and 1 to MaxRows rows (MaxCells cells at most) of    *)
(* Elements of the shapes of Shapes, labelled by strings or by 0, 1, 2     *)
(* (the default labels), with                                              *)
(* and without a width for a column's Series in col_args, drawn with and   *)
(* without the names.                                                      *)
(***************************************************************************)
MaxColumns == 3
MaxRows == 2
StringLabels == [k \in 1..MaxColumns |-> PyStr(<< "c" >> \o StrInt(k))]
DefaultLabels == [k \in 1..MaxColumns |-> PyInt(k - 1)]
\* cells per table
MaxCells == 6
TableSizes == { p \in (1..MaxColumns) \X (1..MaxRows) : p[1] * p[2] <= MaxCells }
TableShapes == UNION { [1..p[1] -> [1..p[2] -> Shapes]] : p \in TableSizes }
TableCells(shapes, k) ==
    [r \in 1..Len(shapes[k]) |-> PlainElement(PyInt(10 * k + r), shapes[k][r][1], shapes[k][r][2])]
TableColumns(shapes, labels) ==
    [k \in 1..Len(shapes) |-> Column(labels[k], TableCells(shapes, k))]
TableArgs == { ColumnArgs(1, 1), ColumnArgs(1, MaxExtent) }
TablesOf(sh) ==
    { DataFrame(TableColumns(sh, lb), ca) :
          lb \in {StringLabels, DefaultLabels}, ca \in [1..Len(sh) -> TableArgs] }

InitTable ==
    /\ x \in Coords
    /\ y \in Coords
    /\ widths = <<>>
    /\ heights = <<>>
    /\ checkpoints = <<>>
    /\ drawn = <<>>
    /\ \E sh \in TableShapes : obj \in TablesOf(sh)
    /\ out = <<>>
    /\ last = Called("__init__", <<>>, "ok")

TableDrawStep == \E draw_names \in BOOLEAN : Len(drawn) < 1 /\ Draw(obj, draw_names)

NextTable == TableDrawStep

SpecTable == InitTable /\ [][NextTable]_vars

\* something a table shows: a value, the cell it is written at, and the cells it covers
Item(val, row, col, height, width, k, member) ==
    [val |-> val, row |-> row, col |-> col, height |-> height, width |-> width,
     k |-> k, member |-> member]

Cells(item) ==
    { <<r, c>> : r \in item.row..(item.row + item.height - 1),
                 c \in item.col..(item.col + item.width - 1) }

\* the total width of column k: the largest width among its cells
ColumnWidth(df, k) == MaxWidth(df.columns[k].values)

\* the column at which column k of a table drawn at column y0 starts: y0 plus the
\* total widths of the columns before it
RECURSIVE StatedColumn(_, _, _)
StatedColumn(df, k, y0) ==
    IF k = 1 THEN y0 ELSE StatedColumn(df, k - 1, y0) + ColumnWidth(df, k - 1)

\* whether the name of column k is drawn
ColumnNamed(df, k, draw_names) == draw_names /\ NameTruthy(df.columns[k].label)

\* the cells of column k, in stored row order from row top on, at column cy
ColumnMembers(df, k, top, cy) ==
    [r \in 1..Len(df.columns[k].values) |->
        Item(df.columns[k].values[r].value,
             top + HeightsBefore(df.columns[k].values, r), cy,
             df.columns[k].values[r].height, df.columns[k].values[r].width, k, TRUE)]

\* what column k shows when the table is drawn at (x0, y0): its name if it is drawn, at
\* row x0, and its cells below the name, or from row x0 on without one
ColumnItems(df, k, x0, y0, draw_names) ==
    IF ColumnNamed(df, k, draw_names)
    THEN << Item(df.columns[k].label, x0, StatedColumn(df, k, y0),
                 df.col_args[k].height, df.col_args[k].width, k, FALSE) >>
         \o ColumnMembers(df, k, x0 + df.col_args[k].height, StatedColumn(df, k, y0))
    ELSE ColumnMembers(df, k, x0, StatedColumn(df, k, y0))

\* the same with the cells from row x0 on, name or no name
ColumnItems_FromTop(df, k, x0, y0, draw_names) ==
    (IF ColumnNamed(df, k, draw_names)
     THEN << Item(df.columns[k].label, x0, StatedColumn(df, k, y0),
                  df.col_args[k].height, df.col_args[k].width, k, FALSE) >>
     ELSE <<>>)
    \o ColumnMembers(df, k, x0, StatedColumn(df, k, y0))

RECURSIVE TableItems(_, _, _, _, _)
TableItems(df, k, x0, y0, draw_names) ==
    IF k > Len(df.columns) THEN <<>>
    ELSE ColumnItems(df, k, x0, y0, draw_names) \o TableItems(df, k + 1, x0, y0, draw_names)

RECURSIVE TableItems_FromTop(_, _, _, _, _)
TableItems_FromTop(df, k, x0, y0, draw_names) ==
    IF k > Len(df.columns) THEN <<>>
    ELSE ColumnItems_FromTop(df, k, x0, y0, draw_names)
         \o TableItems_FromTop(df, k + 1, x0, y0, draw_names)

\* the writes are those of items, in order
WrittenAs(calls, items) ==
    /\ Len(Writes(calls)) = Len(items)
    /\ \A i \in 1..Len(items) :
         /\ Writes(calls)[i].val = items[i].val
         /\ Writes(calls)[i].row = items[i].row
         /\ Writes(calls)[i].col = items[i].col

\* no cell is covered by items of two columns
Apart(items) ==
    \A i, j \in 1..Len(items) :
        items[i].k # items[j].k => Cells(items[i]) \cap Cells(items[j]) = {}

\* the cells of the table, without the names
MembersOf(items) == SelectSeq(items, LAMBDA it : it.member)

\* the items have a cell in each of the columns (of the sheet) from lo to hi
NoGap(items, lo, hi) ==
    \A c \in lo..hi : \E i \in 1..Len(items) : \E r \in 0..(MaxPos + MaxRows * MaxExtent) :
        <<r, c>> \in Cells(items[i])

TableDrawn == IsCall(last, "draw") /\ obj.cls = "DataFrame"

DrawnElements == DrawerElements \cup { PlainElement(PyInt(7), 1, 1) }

InitRange ==
    /\ x = 0
    /\ y = 0
    /\ widths = <<>>
    /\ heights = <<>>
    /\ checkpoints = <<>>
    /\ drawn = <<>>
    /\ obj = NoObject
    /\ out = <<>>
    /\ last = Called("__init__", <<>>, "ok")

Inside == x \in 0..MaxPos /\ y \in 0..MaxPos

RangeDrawStep == \E e \in DrawnElements :
                     Len(drawn) < MaxDraws /\ x = 0 /\ y = 0 /\ Draw(e, FALSE)
RangeMoveStep == \E d \in MoveSteps : Move(d[1], d[2]) /\ Inside'
RangeMoveHorizontalStep == MoveHorizontal(FALSE) /\ Inside'
RangeMoveVerticalStep == MoveVertical(FALSE) /\ Inside'
RangeResetStep == \E xa \in {NoArg, Some(0)}, ya \in {NoArg, Some(0)} : Reset(xa, ya, NoName)
DrawerXlRangeStep == XlRange

NextRange ==
    \/ RangeDrawStep
    \/ RangeMoveStep
    \/ RangeMoveHorizontalStep
    \/ RangeMoveVerticalStep
    \/ RangeResetStep
    \/ DrawerXlRangeStep

SpecRange == InitRange /\ [][NextRange]_vars

\* C20: after any sequence of Drawer operations with at least one draw in it, moves and
\* resets after that draw included, xl_range() returns the cell range on which the
\* most recently drawn element was drawn.
C20_LastDrawnRange ==
    [][ (IsCall(last', "xl_range") /\ Len(drawn) > 0) =>
            /\ last'.err = "ok"
            /\ last'.ret = Element_xl_range(obj, 0, 0)
      ]_vars

(***************************************************************************)
(* The rows of a Dictionary: a Drawer handed a Dictionary whose keys and   *)
(* values are 1 to MaxExtent rows high, whose values are single, lists of  *)
(* plain members or lists of mappings (with and without a height of their  *)
(* own), and whose entries have or have not their own vspace.              *)
(***************************************************************************)
HeightValues == { PyStr(<< "v" >>),
                  PyList(<< PyStr(<< "v" >>), PyStr(<< "w" >>) >>),
                  PyList(<< PyDict(PyStr(<< "v" >>), 0), PyDict(PyStr(<< "w" >>), MaxExtent) >>) }
HeightEntries == { Entry(ItemSpec(PyStr(<< "k" >>), kh, 1), ItemSpec(v, vh, 1), NoArg, vs) :
                       kh \in 1..MaxExtent, vh \in 1..MaxExtent, v \in HeightValues,
                       vs \in { NoArg, Some(1) } }

InitHeights ==
    /\ x \in Coords
    /\ y = 0
    /\ widths = <<>>
    /\ heights = <<>>
    /\ checkpoints = <<>>
    /\ drawn = <<>>
    /\ \E n \in 1..MaxEntries : \E st \in [1..n -> HeightEntries] :
           obj = Dictionary(st, 1, 0, [nm \in {} |-> PyNone])
    /\ out = <<>>
    /\ last = Called("__init__", <<>>, "ok")

HeightsDrawStep == Len(drawn) < 1 /\ Draw(obj, FALSE)

NextHeights == HeightsDrawStep

SpecHeights == InitHeights /\ [][NextHeights]_vars

\* how many items the entries before entry i show
RECURSIVE ItemsBefore(_, _)
ItemsBefore(st, i) ==
    IF i = 1 THEN 0 ELSE ItemsBefore(st, i - 1) + 1 + ValueCount(st[i - 1])

\* the Dictionary made of the entries of d before entry i
EntriesBefore(d, i) == [d EXCEPT !.structure = SubSeq(d.structure, 1, i - 1)]

\* C21: Dictionary.height equals the amount by which draw advances the row over all
\* entries: the entries before any entry i having the height H together, the key of
\* entry i of a Dictionary drawn at (x, y) is written at row x + H.
C21_HeightIsAdvance ==
    (IsCall(last, "draw") /\ obj.cls = "Dictionary" /\ last.err = "ok") =>
        \A i \in 1..Len(obj.structure) :
            /\ Len(Writes(out)) > ItemsBefore(obj.structure, i)
            /\ Writes(out)[ItemsBefore(obj.structure, i) + 1].row =
                   x + Dictionary_height(EntriesBefore(obj, i))

(***************************************************************************)
(* Styles, and the defaults of Series.__init__.  A style is a mapping from *)
(* format keys to values.  The default of a parameter is one object, made  *)
(* when the def statement runs and handed to every call that leaves the    *)
(* parameter out: here obj is that object for the parameter style.         *)
(***************************************************************************)
\* "if borders": None and 0 are false
BordersSet(borders) == borders.some /\ borders.v # 0

\* style[side1] = borders; style[side2] = borders: the object handed in as style is
\* changed (changed), and it is the base style of the members (style)
SeriesStyle(style, horizontal, borders) ==
    IF BordersSet(borders)
    THEN [changed |-> SetStyleKey(SetStyleKey(style, IF horizontal THEN "top" ELSE "left", borders.v),
                                  IF horizontal THEN "bottom" ELSE "right", borders.v),
          style |-> SetStyleKey(SetStyleKey(style, IF horizontal THEN "top" ELSE "left", borders.v),
                                IF horizontal THEN "bottom" ELSE "right", borders.v)]
    ELSE [changed |-> style, style |-> style]

\* first = {fpos: borders}, or the default {}
FirstStyle(horizontal, borders) ==
    IF BordersSet(borders) THEN OneKey(IF horizontal THEN "left" ELSE "top", borders.v)
    ELSE NoStyle

\* last = {lpos: borders}, or the default {}
LastStyle(horizontal, borders) ==
    IF BordersSet(borders) THEN OneKey(IF horizontal THEN "right" ELSE "bottom", borders.v)
    ELSE NoStyle

\* the styles of the n members made of raw values: each is made with the base style;
\* fstl and lstl are computed, then assigned to the first and to the last member (the
\* last assignment wins when they are one)
MemberStyles(n, style, first, lst) ==
    [i \in 1..n |-> IF i = n THEN MergeStyles(style, lst)
                    ELSE IF i = 1 THEN MergeStyles(style, first)
                    ELSE style]

\* the name Element's style: {**style, **stl}, stl being name_args.pop('style', {})
NameStyle(named, style) == IF named THEN Some(style) ELSE [some |-> FALSE, v |-> NoStyle]

\* what Series(data, horizontal, style = ..., borders = ...) of n raw values leaves: the
\* styles of its members and of its name, and the object that is the default of style
SeriesStyled(default, n, horizontal, named, borders, st) ==
    [members |-> MemberStyles(n, st.style, FirstStyle(horizontal, borders),
                              LastStyle(horizontal, borders)),
     name |-> NameStyle(named, st.style),
     default |-> st.changed]

\* style_arg: an explicit style, or none, which hands in the default
Series_new(default, n, horizontal, named, style_arg, borders) ==
    IF style_arg.some
    THEN [SeriesStyled(default, n, horizontal, named, borders,
                       SeriesStyle(style_arg.v, horizontal, borders))
          EXCEPT !.default = default]
    ELSE SeriesStyled(default, n, horizontal, named, borders,
                      SeriesStyle(default, horizontal, borders))

(***************************************************************************)
(* Series made one after another, of 1 to MaxMembers raw values, with and  *)
(* without borders, a name, and a style of their own.                      *)
(***************************************************************************)
InitDefaults ==
    /\ x = 0
    /\ y = 0
    /\ widths = <<>>
    /\ heights = <<>>
    /\ checkpoints = <<>>
    /\ drawn = <<>>
    /\ obj = [cls |-> "dict", style |-> NoStyle]
    /\ out = <<>>
    /\ last = Called("__init__", <<>>, "ok")

SeriesMade(args, r) ==
    /\ obj' = [obj EXCEPT !.style = r.default]
    /\ last' = Returned("Series", args, [members |-> r.members, name |-> r.name])
    /\ out' = <<>>
    /\ UNCHANGED <<x, y, widths, heights, checkpoints, drawn>>

NewSeriesStep ==
    \E n \in 1..MaxMembers, horizontal \in BOOLEAN, named \in BOOLEAN,
       style_arg \in { [some |-> FALSE, v |-> NoStyle], Some(OneKey("bold", 1)) },
       borders \in { NoArg, Some(1) } :
        SeriesMade(<<n, horizontal, named, style_arg, borders>>,
                   Series_new(obj.style, n, horizontal, named, style_arg, borders))

NextDefaults == NewSeriesStep

SpecDefaults == InitDefaults /\ [][NextDefaults]_vars

\* a Series made with the default style and no borders
MadeByDefault(call) ==
    /\ IsCall(call, "Series")
    /\ ~call.arg[4].some
    /\ ~BordersSet(call.arg[5])

\* C22: default values are not shared between instances: whatever Series were made
\* before, with borders or without, the members and the name of a Series made with
\* default arguments have the empty base style.
C22_FreshDefaults ==
    [][ MadeByDefault(last') =>
            /\ \A i \in 1..last'.arg[1] : last'.ret.members[i] = NoStyle
            /\ last'.ret.name.some => last'.ret.name.v = NoStyle
      ]_vars

(***************************************************************************)
(* A table drawn again: a Drawer handed a table of 1x1 cells whose columns *)
(* have, in col_args, nothing, a 'style', or 'name_args' with a comment    *)
(* for the name, and which draws it up to MaxDraws times.                  *)
(***************************************************************************)
PlainShapes(p) == [k \in 1..p[1] |-> [r \in 1..p[2] |-> <<1, 1>>]]
RedrawArgs == { ColumnArgs(1, 1),
                ColumnKwargs(1, 1, OneKey("bold", 1), PyNone),
                ColumnKwargs(1, 1, NoStyle, PyStr(<< "c" >>)) }
RedrawTables(p) ==
    { DataFrame(TableColumns(PlainShapes(p), lb), ca) :
          lb \in {StringLabels, DefaultLabels}, ca \in [1..p[1] -> RedrawArgs] }

InitRedraw ==
    /\ x = 0
    /\ y = 0
    /\ widths = <<>>
    /\ heights = <<>>
    /\ checkpoints = <<>>
    /\ drawn = <<>>
    /\ \E p \in TableSizes : obj \in RedrawTables(p)
    /\ out = <<>>
    /\ last = Called("__init__", <<>>, "ok")

RedrawStep == \E draw_names \in BOOLEAN : Len(drawn) < MaxDraws /\ Draw(obj, draw_names)

NextRedraw == RedrawStep

SpecRedraw == InitRedraw /\ [][NextRedraw]_vars

\* C23: DataFrame.draw leaves col_args unchanged, and a table drawn again with the same
\* arguments (the Drawer has not moved) issues the same backend calls as the time
\* before.
C23_SameCalls ==
    [][ (IsCall(last', "draw") /\ obj.cls = "DataFrame") =>
            /\ obj'.col_args = obj.col_args
            /\ (IsCall(last, "draw") /\ last.arg = last'.arg) => out' = out
      ]_vars

(***************************************************************************)
(* A Dictionary drawn, given another context, and drawn again: every key   *)
(* is "@eval@n", the values are plain or "@eval@n+1", and the context      *)
(* gives n.                                                                *)
(***************************************************************************)
ContextValues == { PyStr(<< "v" >>), PyInt(5), Marked(<< "n", "+", "1" >>) }
ContextEntries == { Entry(ItemSpec(Marked(<< "n" >>), 1, 1), ItemSpec(v, 1, 1), NoArg, NoArg) :
                        v \in ContextValues }
ContextOf(n) == [nm \in { << "n" >> } |-> PyInt(n)]
ContextNumbers == {3, 4}

InitContext ==
    /\ x \in Coords
    /\ y \in Coords
    /\ widths = <<>>
    /\ heights = <<>>
    /\ checkpoints = <<>>
    /\ drawn = <<>>
    /\ \E k \in 1..MaxEntries : \E st \in [1..k -> ContextEntries] :
          \E n \in ContextNumbers : obj = Dictionary(st, 1, 0, ContextOf(n))
    /\ out = <<>>
    /\ last = Called("__init__", <<>>, "ok")

ContextDrawStep == Len(drawn) < MaxDraws /\ Draw(obj, FALSE)

\* dictionary.context = {'n': n}
SetContextStep ==
    \E n \in ContextNumbers :
        /\ obj' = [obj EXCEPT !.context = ContextOf(n)]
        /\ last' = Called("context", << PyInt(n) >>, "ok")
        /\ out' = <<>>
        /\ UNCHANGED <<x, y, widths, heights, checkpoints, drawn>>

NextContext == ContextDrawStep \/ SetContextStep

SpecContext == InitContext /\ [][NextContext]_vars

\* C24: Dictionary.draw leaves the structure as it was, and what it writes for a key
\* "@eval@n" is the n of the context it has at that draw: after a draw and a change of
\* the context, the next draw writes the new n.
C24_Reevaluated ==
    [][ (IsCall(last', "draw") /\ obj.cls = "Dictionary") =>
            /\ obj'.structure = obj.structure
            /\ Writes(out') # <<>> /\ Writes(out')[1].val = obj.context[<< "n" >>]
      ]_vars

\* C25: Series.setprop(name, value, inplace = False) that returns assigns nothing to the
\* members of the series it is called on, and the series it returns (self, as the
\* model records in ret) has the new values.
C25_NotInPlace ==
    [][ (IsCall(last', "setprop") /\ last'.err = "ok" /\ last'.arg[3] = FALSE) =>
            /\ obj'.values = obj.values
            /\ last'.ret = << "self" >>
            /\ \A i \in 1..Len(obj'.values) :
                  PropOf(obj'.values[i], last'.arg[1]) =
                      IF last'.arg[2].t = "list" THEN last'.arg[2].l[i].n
                      ELSE last'.arg[2].n
      ]_vars

(***************************************************************************)
(* What the Drawer records of an object it draws, against the cells the    *)
(* backend was told to write: a Drawer handed an Element, a Series (named  *)
(* or not, the name drawn or not) or a table (names drawn or not, cells of *)
(* the shapes of Shapes), which it draws once and then moves past.         *)
(***************************************************************************)
ExtentCells == 4
ExtentSizes == { p \in TableSizes : p[1] * p[2] <= ExtentCells }

InitExtent ==
    /\ x \in Coords
    /\ y \in Coords
    /\ widths = <<>>
    /\ heights = <<>>
    /\ checkpoints = <<>>
    /\ drawn = <<>>
    /\ \/ obj \in ElemObjects
       \/ obj \in SeriesObjects
       \/ \E p \in ExtentSizes : \E sh \in [1..p[1] -> [1..p[2] -> Shapes]] :
              obj \in TablesOf(sh)
    /\ out = <<>>
    /\ last = Called("__init__", <<>>, "ok")

ExtentDrawStep == \E draw_name \in BOOLEAN : Len(drawn) < 1 /\ Draw(obj, draw_name)
ExtentMoveHorizontalStep == IsCall(last, "draw") /\ MoveHorizontal(FALSE)
ExtentMoveVerticalStep == IsCall(last, "draw") /\ MoveVertical(FALSE)

NextExtent == ExtentDrawStep \/ ExtentMoveHorizontalStep \/ ExtentMoveVerticalStep

SpecExtent == InitExtent /\ [][NextExtent]_vars

\* the last row and the last column a call writes to: those of the range for a merge,
\* of the cell for a write (no other call writes to a cell that these do not)
CallLastRow(c) == IF c.m = "merge_range" THEN RangeTo(c.addr).row
                  ELSE IF c.m = "write" THEN c.row ELSE -1
CallLastCol(c) == IF c.m = "merge_range" THEN RangeTo(c.addr).col
                  ELSE IF c.m = "write" THEN c.col ELSE -1
RECURSIVE LastRowOf(_)
LastRowOf(calls) == IF calls = <<>> THEN -1
                    ELSE Max(CallLastRow(Head(calls)), LastRowOf(Tail(calls)))
RECURSIVE LastColOf(_)
LastColOf(calls) == IF calls = <<>> THEN -1
                    ELSE Max(CallLastCol(Head(calls)), LastColOf(Tail(calls)))

\* C26: after Drawer.draw of an Element, a Series or a table at (x, y), width(0) is the
\* number of columns and height(0) the number of rows from (x, y) to the last cell
\* written, so that move_horizontal() goes to the column after the last one written and
\* move_vertical() to the row after the last one.
C26_PastTheObject ==
    [][ (IsCall(last, "draw") /\ last.err = "ok") =>
            /\ Drawer_width(0).val = LastColOf(out) - y + 1
            /\ Drawer_height(0).val = LastRowOf(out) - x + 1
            /\ IsCall(last', "move_horizontal") => y' = LastColOf(out) + 1
            /\ IsCall(last', "move_vertical") => x' = LastRowOf(out) + 1
      ]_vars

=============================================================================
